---- MODULE Spec2Model ----
(***************************************************************************)
(* PolicyKit on-chain policy engine (contracts/src/core/PolicyEngine.sol)  *)
(* with its rule evaluators, parameter codec and attestation verifier.     *)
(*                                                                         *)
(* Modelling conventions                                                   *)
(*  - an address is a natural number, address(0) is 0;                     *)
(*  - a `bytes` parameter blob is a sequence of 32-byte words, and ABI     *)
(*    offsets inside a blob are counted in words (1 stands for 0x20);      *)
(*  - calldata is a record: its byte length, its first four bytes (the     *)
(*    selector) and the 32-byte words that follow the selector;            *)
(*  - uint256 is scaled to 0..MaxUint, additions are checked as Solidity   *)
(*    0.8 checks them (overflow reverts);                                  *)
(*  - keccak256 and the EIP-712 digest are injective tagged tuples;        *)
(*  - every external function is one atomic action (one transaction); a    *)
(*    revert leaves the storage unchanged and is recorded in `ret`;        *)
(*  - SpecReentry takes checkPolicy and evaluateDetailed apart into their  *)
(*    calls, with the call frames in `stack`.                              *)
(***************************************************************************)
EXTENDS Integers, Sequences, FiniteSets, TLC

\* ───────────────────────────── Bounds ─────────────────────────────

\* Longest rule list handed to setPolicySet.
MaxRules == 2
\* Call values are 0..MaxCallValue, in units of half an ether.
MaxCallValue == 4
\* Longest target or selector list of a rule.
MaxListLen == 2
\* block.timestamp ranges over 1..MaxTime.
MaxTime == 3
\* Scaled type(uint256).max.
MaxUint == 8

\* Most guarded executions counted by MockGuardedContract.executionCount.
MaxExecutions == 2

\* ───────────────────────────── Addresses and amounts ─────────────────────────────

\* The addresses and identifiers the contract tests use.
ALICE == 659662
BOB == 2827
UNISWAP == 1
AAVE == 2
MALICIOUS == 2989
MOCK_CID == 4660
NEW_CID == 22136
PKP == 2457

HALF_ETHER == 1
ONE_ETHER == 2
TWO_ETHER == 4

\* ───────────────────────────── Types ─────────────────────────────

Accounts == {ALICE, BOB}
Targets == {UNISWAP, AAVE, MALICIOUS}
Values == 0..MaxCallValue
Slots == 0..(MaxRules - 1)

RuleTypes ==
    {"ALLOW_TARGETS", "DENY_TARGETS", "ALLOW_SELECTORS", "DENY_SELECTORS",
     "MAX_VALUE", "SPEND_LIMIT", "COOLDOWN"}

FailModes == {"CLOSED", "OPEN"}

\* A rule as stored and as passed to setPolicySet.
OnChainRule(ruleType, params, enabled) ==
    [ruleType |-> ruleType, params |-> params, enabled |-> enabled]

\* Value of a storage slot that was never written or was deleted
\* (enum value 0, empty bytes, false).
DefaultRule == OnChainRule("ALLOW_TARGETS", <<>>, FALSE)

PolicySet(policyCID, pkpAddress, requireAttestation, failMode, ruleCount, exists) ==
    [policyCID |-> policyCID, pkpAddress |-> pkpAddress,
     requireAttestation |-> requireAttestation, failMode |-> failMode,
     ruleCount |-> ruleCount, exists |-> exists]

\* Value of a policy entry that was never written or was deleted.
DefaultPolicy == PolicySet(0, 0, FALSE, "CLOSED", 0, FALSE)

SpendState(spent, windowStart) == [spent |-> spent, windowStart |-> windowStart]

DefaultSpendState == SpendState(0, 0)

\* ───────────────────────────── Calldata ─────────────────────────────

\* A bytes4 selector is a natural number; the two ERC-20 selectors the
\* spend limit knows (0xa9059cbb, 0x095ea7b3) are scaled to 1 and 2, and
\* bytes4(0) is 0.
TRANSFER_SELECTOR == 1
APPROVE_SELECTOR == 2

Calldata(length, selector, args) ==
    [length |-> length, selector |-> selector, args |-> args]

\* "" : a plain value transfer.
EmptyData == Calldata(0, 0, <<>>)
\* Three bytes: too short to hold a selector.
ShortData == Calldata(3, 0, <<>>)
\* A bare four-byte selector.
SelectorCall(selector) == Calldata(4, selector, <<>>)
\* selector(address,uint256): 4 + 64 bytes.
TokenCall(selector, to, amount) == Calldata(68, selector, <<to, amount>>)

\* CalldataParser.extractSelector
extractSelector(data) ==
    IF data.length < 4 THEN 0 ELSE data.selector

\* ───────────────────────────── PolicyCodec ─────────────────────────────

Reverted == [reverted |-> TRUE]
Decoded(v) == [reverted |-> FALSE, value |-> v]

encodeTargetListParams(targets) == <<1, 1, Len(targets)>> \o targets

\* abi.decode of a struct holding one dynamic array: head offset, array
\* offset, length, elements; every read must lie inside the blob.
DecodeList(data) ==
    IF Len(data) < 1 THEN Reverted
    ELSE LET off == data[1] IN
         IF off + 1 > Len(data) THEN Reverted
         ELSE LET pos == off + data[off + 1] IN
              IF pos + 1 > Len(data) THEN Reverted
              ELSE LET n == data[pos + 1] IN
                   IF pos + 1 + n > Len(data) THEN Reverted
                   ELSE Decoded([i \in 1..n |-> data[pos + 1 + i]])

decodeTargetListParams(data) == DecodeList(data)

encodeSelectorListParams(selectors) == <<1, 1, Len(selectors)>> \o selectors

decodeSelectorListParams(data) == DecodeList(data)

encodeMaxValueParams(maxValue) == <<maxValue>>

decodeMaxValueParams(data) ==
    IF Len(data) < 1 THEN Reverted
    ELSE Decoded([maxValue |-> data[1]])

encodeSpendLimitParams(token, maxAmount, windowSeconds) ==
    <<token, maxAmount, windowSeconds>>

decodeSpendLimitParams(data) ==
    IF Len(data) < 3 THEN Reverted
    ELSE Decoded([token |-> data[1], maxAmount |-> data[2], windowSeconds |-> data[3]])

encodeCooldownParams(cooldownSeconds) == <<cooldownSeconds>>

decodeCooldownParams(data) ==
    IF Len(data) < 1 THEN Reverted
    ELSE Decoded([cooldownSeconds |-> data[1]])

\* ───────────────────────────── State ─────────────────────────────

VARIABLES
    _policies,          \* PolicyEngine._policies: account -> PolicySet
    _rules,             \* PolicyEngine._rules: account -> ruleIndex -> OnChainRule
    spendStates,        \* SpendLimitRule.spendStates: account -> ruleIndex -> SpendState
    lastExecutionTime,  \* CooldownRule.lastExecutionTime: account -> ruleIndex -> timestamp
    now,                \* block.timestamp
    ret,                \* the last transaction: its arguments and its outcome
    _status,            \* ReentrancyGuard._status of the engine
    stack,              \* the call frames of the running transaction, outermost first
    executionCount,     \* MockGuardedContract.executionCount
    initialized         \* PolicyKit7579Module.initialized: account -> bool

vars == <<_policies, _rules, spendStates, lastExecutionTime, now, ret, _status, stack,
          executionCount, initialized>>

store == <<_policies, _rules, spendStates, lastExecutionTime>>

Init ==
    /\ _policies = [a \in Accounts |-> DefaultPolicy]
    /\ _rules = [a \in Accounts |-> [i \in Slots |-> DefaultRule]]
    /\ spendStates = [a \in Accounts |-> [i \in Slots |-> DefaultSpendState]]
    /\ lastExecutionTime = [a \in Accounts |-> [i \in Slots |-> 0]]
    /\ now = 1
    /\ ret = [op |-> "constructor"]
    /\ _status = "NOT_ENTERED"
    /\ stack = <<>>
    /\ executionCount = 0
    /\ initialized = [a \in Accounts |-> FALSE]

\* ───────────────────────────── Rule evaluators ─────────────────────────────

\* (passed, reason) returned by an evaluator, or a revert of the call.
Pass == [reverted |-> FALSE, passed |-> TRUE, reason |-> ""]
Fail(reason) == [reverted |-> FALSE, passed |-> FALSE, reason |-> reason]
Revert == [reverted |-> TRUE, passed |-> FALSE, reason |-> ""]

\* for (i = from; i < list.length; i++) if (list[i] == x) return true;
\* indices are 1-based here.
RECURSIVE ScanFor(_, _, _)
ScanFor(list, x, i) ==
    IF i > Len(list) THEN FALSE
    ELSE IF list[i] = x THEN TRUE
    ELSE ScanFor(list, x, i + 1)

\* Faulty variant: only the first list element is compared.
AllowTargetsRule_evaluate_FirstOnly(params, caller, target, value, data) ==
    LET decoded == decodeTargetListParams(params) IN
    IF decoded.reverted THEN Revert
    ELSE IF Len(decoded.value) > 0 /\ decoded.value[1] = target THEN Pass
    ELSE Fail("Target address not in allowlist")

AllowTargetsRule_evaluate(params, caller, target, value, data) ==
    LET decoded == decodeTargetListParams(params) IN
    IF decoded.reverted THEN Revert
    ELSE IF ScanFor(decoded.value, target, 1) THEN Pass
    ELSE Fail("Target address not in allowlist")

\* Faulty variant: only the first list element is compared.
DenyTargetsRule_evaluate_FirstOnly(params, caller, target, value, data) ==
    LET decoded == decodeTargetListParams(params) IN
    IF decoded.reverted THEN Revert
    ELSE IF Len(decoded.value) > 0 /\ decoded.value[1] = target
         THEN Fail("Target address is in denylist")
    ELSE Pass

DenyTargetsRule_evaluate(params, caller, target, value, data) ==
    LET decoded == decodeTargetListParams(params) IN
    IF decoded.reverted THEN Revert
    ELSE IF ScanFor(decoded.value, target, 1) THEN Fail("Target address is in denylist")
    ELSE Pass

\* Faulty variant: calldata shorter than 4 bytes is not exempted.
AllowSelectorsRule_evaluate_NoExemption(params, caller, target, value, data) ==
    LET selector == extractSelector(data)
        decoded == decodeSelectorListParams(params) IN
    IF decoded.reverted THEN Revert
    ELSE IF ScanFor(decoded.value, selector, 1) THEN Pass
    ELSE Fail("Function selector not in allowlist")

AllowSelectorsRule_evaluate(params, caller, target, value, data) ==
    IF data.length < 4 THEN Pass
    ELSE LET selector == extractSelector(data)
             decoded == decodeSelectorListParams(params) IN
         IF decoded.reverted THEN Revert
         ELSE IF ScanFor(decoded.value, selector, 1) THEN Pass
         ELSE Fail("Function selector not in allowlist")

DenySelectorsRule_evaluate(params, caller, target, value, data) ==
    IF data.length < 4 THEN Pass
    ELSE LET selector == extractSelector(data)
             decoded == decodeSelectorListParams(params) IN
         IF decoded.reverted THEN Revert
         ELSE IF ScanFor(decoded.value, selector, 1) THEN Fail("Function selector is in denylist")
         ELSE Pass

\* Faulty variant: the boundary value = maxValue is rejected.
MaxValueRule_evaluate_Exclusive(params, caller, target, value, data) ==
    LET decoded == decodeMaxValueParams(params) IN
    IF decoded.reverted THEN Revert
    ELSE IF value >= decoded.value.maxValue THEN Fail("ETH value exceeds maximum")
    ELSE Pass

MaxValueRule_evaluate(params, caller, target, value, data) ==
    LET decoded == decodeMaxValueParams(params) IN
    IF decoded.reverted THEN Revert
    ELSE IF value > decoded.value.maxValue THEN Fail("ETH value exceeds maximum")
    ELSE Pass

\* SpendLimitRule._extractSpendAmount
extractSpendAmount(token, target, value, data) ==
    IF /\ target = token
       /\ data.length >= 68
       /\ data.selector \in {TRANSFER_SELECTOR, APPROVE_SELECTOR}
    THEN data.args[2]
    ELSE IF token = 0 THEN value
    ELSE 0

\* uint256(keccak256(abi.encode(caller, token, windowSeconds))) % type(uint256).max:
\* a 256-bit hash, which is no rule position.
SpendStateKey(caller, token, windowSeconds) ==
    MaxRules + (caller * (MaxUint + 1) + token) * (MaxUint + 1) + windowSeconds

\* spendStates[account][index]; a slot nothing wrote reads as the default.
ReadSpendState(account, index) ==
    IF account \in DOMAIN spendStates /\ index \in DOMAIN spendStates[account]
    THEN spendStates[account][index]
    ELSE DefaultSpendState

\* lastExecutionTime[account][index]
ReadLastExecution(account, index) ==
    IF account \in DOMAIN lastExecutionTime /\ index \in DOMAIN lastExecutionTime[account]
    THEN lastExecutionTime[account][index]
    ELSE 0

SpendLimitRule_evaluate(params, caller, target, value, data) ==
    LET decoded == decodeSpendLimitParams(params) IN
    IF decoded.reverted THEN Revert
    ELSE
    LET p == decoded.value
        spendAmount == extractSpendAmount(p.token, target, value, data)
        ruleIndex == SpendStateKey(caller, p.token, p.windowSeconds)
        state == ReadSpendState(caller, ruleIndex)
    IN
    IF spendAmount = 0 THEN Pass
    ELSE IF state.windowStart + p.windowSeconds > MaxUint THEN Revert
    ELSE
    LET currentSpent ==
            IF now >= state.windowStart + p.windowSeconds THEN 0 ELSE state.spent
    IN
    IF currentSpent + spendAmount > MaxUint THEN Revert
    ELSE IF currentSpent + spendAmount > p.maxAmount
         THEN Fail("Spend limit exceeded for window")
    ELSE Pass

CooldownRule_evaluate(params, caller, target, value, data) ==
    LET decoded == decodeCooldownParams(params) IN
    IF decoded.reverted THEN Revert
    ELSE
    LET lastExec == ReadLastExecution(caller, 0) IN
    IF lastExec = 0 THEN Pass
    ELSE IF lastExec + decoded.value.cooldownSeconds > MaxUint THEN Revert
    ELSE IF now < lastExec + decoded.value.cooldownSeconds
         THEN Fail("Cooldown period has not elapsed")
    ELSE Pass

\* PolicyEngine._evaluateRule: dispatch on the rule type.
evaluateRule(rule, caller, target, value, data) ==
    IF rule.ruleType = "ALLOW_TARGETS" THEN
        AllowTargetsRule_evaluate(rule.params, caller, target, value, data)
    ELSE IF rule.ruleType = "DENY_TARGETS" THEN
        DenyTargetsRule_evaluate(rule.params, caller, target, value, data)
    ELSE IF rule.ruleType = "ALLOW_SELECTORS" THEN
        AllowSelectorsRule_evaluate(rule.params, caller, target, value, data)
    ELSE IF rule.ruleType = "DENY_SELECTORS" THEN
        DenySelectorsRule_evaluate(rule.params, caller, target, value, data)
    ELSE IF rule.ruleType = "MAX_VALUE" THEN
        MaxValueRule_evaluate(rule.params, caller, target, value, data)
    ELSE IF rule.ruleType = "SPEND_LIMIT" THEN
        SpendLimitRule_evaluate(rule.params, caller, target, value, data)
    ELSE IF rule.ruleType = "COOLDOWN" THEN
        CooldownRule_evaluate(rule.params, caller, target, value, data)
    ELSE Fail("Unknown rule type")

\* ───────────────────────────── Attestation ─────────────────────────────

\* block.chainid
CHAIN_ID == 1

PolicyApproval(caller, target, value, calldataHash, expiry, policyCID, chainId) ==
    [caller |-> caller, target |-> target, value |-> value,
     calldataHash |-> calldataHash, expiry |-> expiry,
     policyCID |-> policyCID, chainId |-> chainId]

keccak256(data) == <<"keccak256", data>>

\* EIP712PolicyDomain._hashPolicyApproval: hash of the type hash and the seven fields.
hashPolicyApproval(approval) ==
    <<"PolicyApproval", approval.caller, approval.target, approval.value,
      approval.calldataHash, approval.expiry, approval.policyCID, approval.chainId>>

\* EIP712PolicyDomain.getPolicyApprovalDigest: the struct hash under the
\* domain ("PolicyKit", "1", block.chainid, this contract).
getPolicyApprovalDigest(approval) ==
    <<"EIP712", "PolicyKit", "1", CHAIN_ID, hashPolicyApproval(approval)>>

\* A well-formed ECDSA signature made with `signer`'s key over `digest`;
\* signer 0 stands for bytes that ECDSA.recover rejects.
Signature(signer, digest) == [signer |-> signer, digest |-> digest]

\* ECDSA.recover: reverts on a malformed signature, gives the signing address
\* for the digest that was signed and an unrelated address (-1, no modelled
\* address) for any other digest.
recover(digest, signature) ==
    IF signature.signer = 0 THEN Reverted
    ELSE IF signature.digest = digest THEN Decoded(signature.signer)
    ELSE Decoded(-1)

\* The `attestation` argument: empty bytes, abi.encode(approval, signature),
\* or bytes that abi.decode rejects.
EmptyAttestation == [length |-> 0, wellFormed |-> TRUE]
MalformedAttestation == [length |-> 1, wellFormed |-> FALSE]
EncodedAttestation(approval, signature) ==
    [length |-> 416, wellFormed |-> TRUE, approval |-> approval, signature |-> signature]

\* AttestationVerifier._decodeAttestation
decodeAttestation(attestation) ==
    IF attestation.wellFormed /\ attestation.length > 0
    THEN Decoded([approval |-> attestation.approval, signature |-> attestation.signature])
    ELSE Reverted

\* Faulty variant: an approval is no longer valid at its expiry timestamp.
verifyAttestation_ExpiredAtExpiry(approval, signature, expectedSigner) ==
    IF now >= approval.expiry THEN Decoded(FALSE)
    ELSE IF approval.chainId # CHAIN_ID THEN Decoded(FALSE)
    ELSE LET recoveredSigner == recover(getPolicyApprovalDigest(approval), signature) IN
         IF recoveredSigner.reverted THEN Reverted
         ELSE IF recoveredSigner.value # expectedSigner THEN Decoded(FALSE)
         ELSE Decoded(TRUE)

\* AttestationVerifier._verifyAttestation
verifyAttestation(approval, signature, expectedSigner) ==
    IF now > approval.expiry THEN Decoded(FALSE)
    ELSE IF approval.chainId # CHAIN_ID THEN Decoded(FALSE)
    ELSE LET recoveredSigner == recover(getPolicyApprovalDigest(approval), signature) IN
         IF recoveredSigner.reverted THEN Reverted
         ELSE IF recoveredSigner.value # expectedSigner THEN Decoded(FALSE)
         ELSE Decoded(TRUE)

\* ───────────────────────────── PolicyEngine: views ─────────────────────────────

getPolicy(account) == _policies[account]

hasPolicy(account) == _policies[account].exists

getRule(account, ruleIndex) ==
    IF ruleIndex \in Slots THEN _rules[account][ruleIndex] ELSE DefaultRule

\* ───────────────────────────── PolicyEngine.checkPolicy ─────────────────────────────

\* Outcome of checkPolicy: the returned bool and the reason of the
\* PolicyCheckFailed event, or a revert.
Allowed == [reverted |-> FALSE, result |-> TRUE, reason |-> ""]
Denied(reason) == [reverted |-> FALSE, result |-> FALSE, reason |-> reason]
CallReverted == [reverted |-> TRUE, result |-> FALSE, reason |-> ""]

\* Faulty variant: the loop stops one rule short (i < ruleCount - 1).
RECURSIVE CheckRules_OneShort(_, _, _, _, _)
CheckRules_OneShort(account, i, target, value, data) ==
    IF i + 1 >= _policies[account].ruleCount THEN Pass
    ELSE LET rule == _rules[account][i] IN
         IF ~rule.enabled THEN CheckRules_OneShort(account, i + 1, target, value, data)
         ELSE LET r == evaluateRule(rule, account, target, value, data) IN
              IF r.reverted \/ ~r.passed THEN r
              ELSE CheckRules_OneShort(account, i + 1, target, value, data)

\* The rule loop of checkPolicy from position i: the first enabled rule that
\* fails (or reverts) ends it.
RECURSIVE CheckRules(_, _, _, _, _)
CheckRules(account, i, target, value, data) ==
    IF i >= _policies[account].ruleCount THEN Pass
    ELSE LET rule == _rules[account][i] IN
         IF ~rule.enabled THEN CheckRules(account, i + 1, target, value, data)
         ELSE LET r == evaluateRule(rule, account, target, value, data) IN
              IF r.reverted \/ ~r.passed THEN r
              ELSE CheckRules(account, i + 1, target, value, data)

\* Faulty variant: a missing attestation is denied whatever the fail mode.
CheckAttestation_AlwaysClosed(policy, account, target, value, data, attestation) ==
    IF ~policy.requireAttestation THEN Allowed
    ELSE IF attestation.length = 0
         THEN Denied("Attestation required but not provided")
    ELSE Denied("Invalid attestation signature or expired")

\* Faulty variant: the signature is verified before the approval is compared
\* with the call.
CheckAttestation_VerifyFirst(policy, account, target, value, data, attestation) ==
    IF ~policy.requireAttestation THEN Allowed
    ELSE IF attestation.length = 0 THEN
        IF policy.failMode = "CLOSED"
        THEN Denied("Attestation required but not provided")
        ELSE Allowed
    ELSE LET d == decodeAttestation(attestation) IN
         IF d.reverted THEN CallReverted
         ELSE LET approval == d.value.approval
                  valid == verifyAttestation(approval, d.value.signature, policy.pkpAddress)
              IN
              IF valid.reverted THEN CallReverted
              ELSE IF ~valid.value THEN Denied("Invalid attestation signature or expired")
              ELSE IF approval.caller # account THEN Denied("Attestation caller mismatch")
              ELSE IF approval.target # target THEN Denied("Attestation target mismatch")
              ELSE IF approval.value # value THEN Denied("Attestation value mismatch")
              ELSE IF approval.calldataHash # keccak256(data)
                   THEN Denied("Attestation calldata mismatch")
              ELSE IF approval.policyCID # policy.policyCID
                   THEN Denied("Attestation policy CID mismatch")
              ELSE Allowed

\* Faulty variant: under fail mode OPEN an attestation that fails
\* verification is let through like a missing one.
CheckAttestation_OpenAllowsInvalid(policy, account, target, value, data, attestation) ==
    IF ~policy.requireAttestation THEN Allowed
    ELSE IF attestation.length = 0 THEN
        IF policy.failMode = "CLOSED"
        THEN Denied("Attestation required but not provided")
        ELSE Allowed
    ELSE LET d == decodeAttestation(attestation) IN
         IF d.reverted THEN CallReverted
         ELSE LET approval == d.value.approval IN
              IF approval.caller # account THEN Denied("Attestation caller mismatch")
              ELSE IF approval.target # target THEN Denied("Attestation target mismatch")
              ELSE IF approval.value # value THEN Denied("Attestation value mismatch")
              ELSE IF approval.calldataHash # keccak256(data)
                   THEN Denied("Attestation calldata mismatch")
              ELSE IF approval.policyCID # policy.policyCID
                   THEN Denied("Attestation policy CID mismatch")
              ELSE LET valid == verifyAttestation(approval, d.value.signature,
                                                  policy.pkpAddress) IN
                   IF valid.reverted THEN CallReverted
                   ELSE IF ~valid.value /\ policy.failMode = "CLOSED"
                        THEN Denied("Invalid attestation signature or expired")
                   ELSE Allowed

\* The attestation phase of checkPolicy (lines 149-191).
CheckAttestation(policy, account, target, value, data, attestation) ==
    IF ~policy.requireAttestation THEN Allowed
    ELSE IF attestation.length = 0 THEN
        IF policy.failMode = "CLOSED"
        THEN Denied("Attestation required but not provided")
        ELSE Allowed
    ELSE LET d == decodeAttestation(attestation) IN
         IF d.reverted THEN CallReverted
         ELSE LET approval == d.value.approval IN
              IF approval.caller # account THEN Denied("Attestation caller mismatch")
              ELSE IF approval.target # target THEN Denied("Attestation target mismatch")
              ELSE IF approval.value # value THEN Denied("Attestation value mismatch")
              ELSE IF approval.calldataHash # keccak256(data)
                   THEN Denied("Attestation calldata mismatch")
              ELSE IF approval.policyCID # policy.policyCID
                   THEN Denied("Attestation policy CID mismatch")
              ELSE LET valid == verifyAttestation(approval, d.value.signature,
                                                  policy.pkpAddress) IN
                   IF valid.reverted THEN CallReverted
                   ELSE IF ~valid.value
                        THEN Denied("Invalid attestation signature or expired")
                   ELSE Allowed

\* Faulty variant: an account without a policy is denied.
checkPolicy_DenyByDefault(account, target, value, data, attestation) ==
    LET policy == _policies[account] IN
    IF ~policy.exists THEN Denied("No policy set")
    ELSE LET r == CheckRules(account, 0, target, value, data) IN
         IF r.reverted THEN CallReverted
         ELSE IF ~r.passed THEN Denied(r.reason)
         ELSE CheckAttestation(policy, account, target, value, data, attestation)

\* Faulty variant: the attestation phase runs before the rule loop.
checkPolicy_AttestationFirst(account, target, value, data, attestation) ==
    LET policy == _policies[account] IN
    IF ~policy.exists THEN Allowed
    ELSE LET a == CheckAttestation(policy, account, target, value, data, attestation) IN
         IF a.reverted \/ ~a.result THEN a
         ELSE LET r == CheckRules(account, 0, target, value, data) IN
              IF r.reverted THEN CallReverted
              ELSE IF ~r.passed THEN Denied(r.reason)
              ELSE Allowed

checkPolicy(account, target, value, data, attestation) ==
    LET policy == _policies[account] IN
    IF ~policy.exists THEN Allowed
    ELSE LET r == CheckRules(account, 0, target, value, data) IN
         IF r.reverted THEN CallReverted
         ELSE IF ~r.passed THEN Denied(r.reason)
         ELSE CheckAttestation(policy, account, target, value, data, attestation)

\* ───────────────────────────── PolicyEngine.evaluateDetailed ─────────────────────────────

\* evaluateDetailed, lines 213-217: the number of enabled rules below ruleCount.
RECURSIVE enabledCount(_, _)
enabledCount(account, i) ==
    IF i >= _policies[account].ruleCount THEN 0
    ELSE (IF _rules[account][i].enabled THEN 1 ELSE 0) + enabledCount(account, i + 1)

\* A bool[] / string[] pair of the given size, zero-initialised, with the
\* overall flag and the next index to fill.
NewDetailed(totalResults) ==
    [reverted |-> FALSE, passed |-> TRUE,
     ruleResults |-> [k \in 1..totalResults |-> FALSE],
     reasons |-> [k \in 1..totalResults |-> ""],
     resultIndex |-> 0]

\* ruleResults[resultIndex] = result; reasons[resultIndex] = reason; an index
\* outside the array reverts (indices are 0-based in the code).
WriteDetailed(acc, result, reason) ==
    IF acc.resultIndex >= Len(acc.ruleResults) THEN [acc EXCEPT !.reverted = TRUE]
    ELSE [acc EXCEPT !.ruleResults[acc.resultIndex + 1] = result,
                     !.reasons[acc.resultIndex + 1] = reason,
                     !.passed = acc.passed /\ result]

\* Faulty variant: the loop stops at the first rule that fails.
RECURSIVE DetailedRules_ShortCircuit(_, _, _, _, _, _)
DetailedRules_ShortCircuit(account, i, acc, target, value, data) ==
    IF i >= _policies[account].ruleCount THEN acc
    ELSE LET rule == _rules[account][i] IN
         IF ~rule.enabled
         THEN DetailedRules_ShortCircuit(account, i + 1, acc, target, value, data)
         ELSE LET r == evaluateRule(rule, account, target, value, data) IN
              IF r.reverted THEN [acc EXCEPT !.reverted = TRUE]
              ELSE LET w == WriteDetailed(acc, r.passed, IF r.passed THEN "" ELSE r.reason)
                   IN IF w.reverted \/ ~r.passed THEN w
                      ELSE DetailedRules_ShortCircuit(account, i + 1,
                                [w EXCEPT !.resultIndex = @ + 1], target, value, data)

\* The rule loop of evaluateDetailed (lines 227-237) from position i.
RECURSIVE DetailedRules(_, _, _, _, _, _)
DetailedRules(account, i, acc, target, value, data) ==
    IF i >= _policies[account].ruleCount THEN acc
    ELSE LET rule == _rules[account][i] IN
         IF ~rule.enabled THEN DetailedRules(account, i + 1, acc, target, value, data)
         ELSE LET r == evaluateRule(rule, account, target, value, data) IN
              IF r.reverted THEN [acc EXCEPT !.reverted = TRUE]
              ELSE LET w == WriteDetailed(acc, r.passed, IF r.passed THEN "" ELSE r.reason)
                   IN IF w.reverted THEN w
                      ELSE DetailedRules(account, i + 1,
                                [w EXCEPT !.resultIndex = @ + 1], target, value, data)

\* The attestation phase of evaluateDetailed (lines 239-258): the approval is
\* decoded and verified, its fields are not compared with the call.
DetailedAttestation(policy, acc, attestation) ==
    IF ~policy.requireAttestation THEN acc
    ELSE IF attestation.length = 0 THEN
        IF policy.failMode = "CLOSED"
        THEN WriteDetailed(acc, FALSE, "Attestation required but not provided")
        ELSE WriteDetailed(acc, TRUE, "Attestation skipped (fail-open mode)")
    ELSE LET d == decodeAttestation(attestation) IN
         IF d.reverted THEN [acc EXCEPT !.reverted = TRUE]
         ELSE LET valid == verifyAttestation(d.value.approval, d.value.signature,
                                             policy.pkpAddress) IN
              IF valid.reverted THEN [acc EXCEPT !.reverted = TRUE]
              ELSE WriteDetailed(acc, valid.value,
                                 IF valid.value THEN "" ELSE "Invalid attestation")

\* Outcome of evaluateDetailed: (passed, ruleResults, reasons), or a revert.
Detailed(passed, ruleResults, reasons) ==
    [reverted |-> FALSE, passed |-> passed, ruleResults |-> ruleResults, reasons |-> reasons]
DetailedReverted == [reverted |-> TRUE, passed |-> FALSE, ruleResults |-> <<>>, reasons |-> <<>>]

evaluateDetailed(account, target, value, data, attestation) ==
    LET policy == _policies[account] IN
    IF ~policy.exists THEN Detailed(TRUE, <<>>, <<>>)
    ELSE LET enabled == enabledCount(account, 0)
             totalResults == IF policy.requireAttestation THEN enabled + 1 ELSE enabled
             afterRules == DetailedRules(account, 0, NewDetailed(totalResults),
                                         target, value, data)
         IN IF afterRules.reverted THEN DetailedReverted
            ELSE LET out == DetailedAttestation(policy, afterRules, attestation) IN
                 IF out.reverted THEN DetailedReverted
                 ELSE Detailed(out.passed, out.ruleResults, out.reasons)

\* ───────────────────────────── PolicyEngine: transactions ─────────────────────────────

\* Faulty variant: the old rules are not deleted before the new ones are written.
SetPolicySetRules_NoClear(old, ruleCount, rs) ==
    [i \in Slots |-> IF i < Len(rs) THEN rs[i + 1] ELSE old[i]]

\* Faulty variant: the attester is not validated.
InvalidPKPAddress_Unchecked(requireAttestation, pkpAddress) == FALSE

\* setPolicySet, lines 71-73: attestation required but no attester given.
InvalidPKPAddress(requireAttestation, pkpAddress) ==
    requireAttestation /\ pkpAddress = 0

\* setPolicySet, lines 75-92: delete the slots below the old ruleCount, then
\* write the metadata, then write rules[i] into slot i.
SetPolicySetRules(old, ruleCount, rs) ==
    LET cleared == [i \in Slots |-> IF i < ruleCount THEN DefaultRule ELSE old[i]]
    IN [i \in Slots |-> IF i < Len(rs) THEN rs[i + 1] ELSE cleared[i]]

\* Faulty variant: storing a policy resets the account's spend-limit and
\* cooldown state.
SetPolicySet_ClearsHistory(sender, policyCID, pkpAddress, requireAttestation, failMode, rs) ==
    LET policy == _policies[sender] IN
    IF InvalidPKPAddress(requireAttestation, pkpAddress)
    THEN /\ ret' = [op |-> "setPolicySet", sender |-> sender, reverted |-> TRUE,
                    error |-> "InvalidPKPAddress",
                    pkpAddress |-> pkpAddress, requireAttestation |-> requireAttestation]
         /\ UNCHANGED <<_policies, _rules, spendStates, lastExecutionTime, now, _status, stack,
                        executionCount, initialized>>
    ELSE /\ _rules' = [_rules EXCEPT ![sender] = SetPolicySetRules(@, policy.ruleCount, rs)]
         /\ _policies' = [_policies EXCEPT ![sender] =
                PolicySet(policyCID, pkpAddress, requireAttestation, failMode, Len(rs), TRUE)]
         /\ ret' = [op |-> "setPolicySet", sender |-> sender, reverted |-> FALSE,
                    error |-> "",
                    pkpAddress |-> pkpAddress, requireAttestation |-> requireAttestation,
                    policyCID |-> policyCID, failMode |-> failMode, rules |-> rs,
                    hadPolicy |-> policy.exists, oldRuleCount |-> policy.ruleCount]
         /\ spendStates' = [spendStates EXCEPT
                ![sender] = [i \in Slots |-> [spent |-> 0, windowStart |-> 0]]]
         /\ lastExecutionTime' = [lastExecutionTime EXCEPT ![sender] = [i \in Slots |-> 0]]
         /\ UNCHANGED <<now, _status, stack, executionCount, initialized>>

SetPolicySet(sender, policyCID, pkpAddress, requireAttestation, failMode, rs) ==
    LET policy == _policies[sender] IN
    IF InvalidPKPAddress(requireAttestation, pkpAddress)
    THEN /\ ret' = [op |-> "setPolicySet", sender |-> sender, reverted |-> TRUE,
                    error |-> "InvalidPKPAddress",
                    pkpAddress |-> pkpAddress, requireAttestation |-> requireAttestation]
         /\ UNCHANGED <<_policies, _rules, spendStates, lastExecutionTime, now, _status, stack,
                        executionCount, initialized>>
    ELSE /\ _rules' = [_rules EXCEPT ![sender] = SetPolicySetRules(@, policy.ruleCount, rs)]
         /\ _policies' = [_policies EXCEPT ![sender] =
                PolicySet(policyCID, pkpAddress, requireAttestation, failMode, Len(rs), TRUE)]
         /\ ret' = [op |-> "setPolicySet", sender |-> sender, reverted |-> FALSE,
                    error |-> "",
                    pkpAddress |-> pkpAddress, requireAttestation |-> requireAttestation,
                    policyCID |-> policyCID, failMode |-> failMode, rules |-> rs,
                    hadPolicy |-> policy.exists, oldRuleCount |-> policy.ruleCount]
         /\ UNCHANGED <<spendStates, lastExecutionTime, now, _status, stack,
                      executionCount, initialized>>

\* Faulty variant: the removal deletes the metadata and leaves the rule slots.
RemovePolicySetRules_KeepsSlots(old, ruleCount) == old

\* removePolicySet, lines 109-115.
RemovePolicySetRules(old, ruleCount) ==
    [i \in Slots |-> IF i < ruleCount THEN DefaultRule ELSE old[i]]

\* Faulty variant: the removal wipes every account's policy and rules.
RemovePolicySet_Everyone(sender) ==
    LET policy == _policies[sender] IN
    IF ~policy.exists
    THEN /\ ret' = [op |-> "removePolicySet", sender |-> sender, reverted |-> TRUE,
                    error |-> "NoPolicySet"]
         /\ UNCHANGED <<_policies, _rules, spendStates, lastExecutionTime, now, _status, stack,
                        executionCount, initialized>>
    ELSE /\ _rules' = [a \in Accounts |-> [i \in Slots |-> DefaultRule]]
         /\ _policies' = [a \in Accounts |-> DefaultPolicy]
         /\ ret' = [op |-> "removePolicySet", sender |-> sender, reverted |-> FALSE,
                    error |-> ""]
         /\ UNCHANGED <<spendStates, lastExecutionTime, now, _status, stack,
                      executionCount, initialized>>

\* Faulty variant: removing a policy that does not exist succeeds silently.
RemovePolicySet_Silent(sender) ==
    LET policy == _policies[sender] IN
    /\ _rules' = [_rules EXCEPT ![sender] = RemovePolicySetRules(@, policy.ruleCount)]
    /\ _policies' = [_policies EXCEPT ![sender] = DefaultPolicy]
    /\ ret' = [op |-> "removePolicySet", sender |-> sender, reverted |-> FALSE,
               error |-> ""]
    /\ UNCHANGED <<spendStates, lastExecutionTime, now, _status, stack,
                      executionCount, initialized>>

RemovePolicySet(sender) ==
    LET policy == _policies[sender] IN
    IF ~policy.exists
    THEN /\ ret' = [op |-> "removePolicySet", sender |-> sender, reverted |-> TRUE,
                    error |-> "NoPolicySet"]
         /\ UNCHANGED <<_policies, _rules, spendStates, lastExecutionTime, now, _status, stack,
                        executionCount, initialized>>
    ELSE /\ _rules' = [_rules EXCEPT ![sender] = RemovePolicySetRules(@, policy.ruleCount)]
         /\ _policies' = [_policies EXCEPT ![sender] = DefaultPolicy]
         /\ ret' = [op |-> "removePolicySet", sender |-> sender, reverted |-> FALSE,
                    error |-> ""]
         /\ UNCHANGED <<spendStates, lastExecutionTime, now, _status, stack,
                      executionCount, initialized>>

\* evaluateDetailed writes no storage; its three return values are recorded.
EvaluateDetailed(sender, account, target, value, data, attestation) ==
    LET out == evaluateDetailed(account, target, value, data, attestation) IN
    /\ ret' = [op |-> "evaluateDetailed", sender |-> sender, account |-> account,
               target |-> target, value |-> value, data |-> data,
               attestation |-> attestation,
               reverted |-> out.reverted, passed |-> out.passed,
               ruleResults |-> out.ruleResults, reasons |-> out.reasons]
    /\ UNCHANGED <<_policies, _rules, spendStates, lastExecutionTime, now, _status, stack,
                   executionCount, initialized>>

\* Faulty variant: an elapsed window is emptied but its start is kept.
SpendLimitRule_record_KeepsStart(ss, policyOwner, ruleIndex, params, target, value, data) ==
    LET decoded == decodeSpendLimitParams(params) IN
    IF decoded.reverted THEN Reverted
    ELSE
    LET p == decoded.value
        spendAmount == extractSpendAmount(p.token, target, value, data)
        state == ss[policyOwner][ruleIndex]
    IN
    IF spendAmount = 0 THEN Decoded(ss)
    ELSE IF state.windowStart + p.windowSeconds > MaxUint THEN Reverted
    ELSE
    LET reset == IF now >= state.windowStart + p.windowSeconds
                 THEN SpendState(0, state.windowStart) ELSE state
    IN
    IF reset.spent + spendAmount > MaxUint THEN Reverted
    ELSE Decoded([ss EXCEPT ![policyOwner][ruleIndex] =
                    SpendState(reset.spent + spendAmount, reset.windowStart)])

\* SpendLimitRule.record on the spend states ss.
SpendLimitRule_record(ss, policyOwner, ruleIndex, params, target, value, data) ==
    LET decoded == decodeSpendLimitParams(params) IN
    IF decoded.reverted THEN Reverted
    ELSE
    LET p == decoded.value
        spendAmount == extractSpendAmount(p.token, target, value, data)
        state == ss[policyOwner][ruleIndex]
    IN
    IF spendAmount = 0 THEN Decoded(ss)
    ELSE IF state.windowStart + p.windowSeconds > MaxUint THEN Reverted
    ELSE
    LET reset == IF now >= state.windowStart + p.windowSeconds
                 THEN SpendState(0, now) ELSE state
    IN
    IF reset.spent + spendAmount > MaxUint THEN Reverted
    ELSE Decoded([ss EXCEPT ![policyOwner][ruleIndex] =
                    SpendState(reset.spent + spendAmount, reset.windowStart)])

\* Faulty variant: the time is written at position 0, not at the rule's position.
CooldownRule_record_FirstSlot(le, policyOwner, ruleIndex) ==
    [le EXCEPT ![policyOwner][0] = now]

\* Faulty variant: only the first execution is recorded; a later one does
\* not restart the cooldown.
CooldownRule_record_FirstOnly(le, policyOwner, ruleIndex) ==
    [le EXCEPT ![policyOwner][ruleIndex] = IF @ = 0 THEN now ELSE @]

\* CooldownRule.record on the execution times le.
CooldownRule_record(le, policyOwner, ruleIndex) ==
    [le EXCEPT ![policyOwner][ruleIndex] = now]

\* Faulty variant: the enabled flag is not consulted before recording.
RECURSIVE RecordRules_RecordsDisabled(_, _, _, _, _, _, _)
RecordRules_RecordsDisabled(account, i, ss, le, target, value, data) ==
    IF i >= _policies[account].ruleCount
    THEN [reverted |-> FALSE, spendStates |-> ss, lastExecutionTime |-> le]
    ELSE LET rule == _rules[account][i] IN
         IF rule.ruleType = "SPEND_LIMIT" THEN
             LET r == SpendLimitRule_record(ss, account, i, rule.params, target, value, data)
             IN IF r.reverted
                THEN [reverted |-> TRUE, spendStates |-> ss, lastExecutionTime |-> le]
                ELSE RecordRules_RecordsDisabled(account, i + 1, r.value, le,
                                                 target, value, data)
         ELSE IF rule.ruleType = "COOLDOWN" THEN
             RecordRules_RecordsDisabled(account, i + 1, ss,
                                         CooldownRule_record(le, account, i),
                                         target, value, data)
         ELSE RecordRules_RecordsDisabled(account, i + 1, ss, le, target, value, data)

\* The loop of recordExecution from position i over (spend states, execution times).
RECURSIVE RecordRules(_, _, _, _, _, _, _)
RecordRules(account, i, ss, le, target, value, data) ==
    IF i >= _policies[account].ruleCount
    THEN [reverted |-> FALSE, spendStates |-> ss, lastExecutionTime |-> le]
    ELSE LET rule == _rules[account][i] IN
         IF ~rule.enabled THEN RecordRules(account, i + 1, ss, le, target, value, data)
         ELSE IF rule.ruleType = "SPEND_LIMIT" THEN
             LET r == SpendLimitRule_record(ss, account, i, rule.params, target, value, data)
             IN IF r.reverted
                THEN [reverted |-> TRUE, spendStates |-> ss, lastExecutionTime |-> le]
                ELSE RecordRules(account, i + 1, r.value, le, target, value, data)
         ELSE IF rule.ruleType = "COOLDOWN" THEN
             RecordRules(account, i + 1, ss, CooldownRule_record(le, account, i),
                         target, value, data)
         ELSE RecordRules(account, i + 1, ss, le, target, value, data)

\* Faulty variant: an attestation that the previous check accepted is not
\* accepted a second time.
CheckPolicy_SingleUse(sender, account, target, value, data, attestation) ==
    LET out == checkPolicy(account, target, value, data, attestation)
        used == /\ attestation.length > 0
                /\ ret.op = "checkPolicy"
                /\ ret.result
                /\ ret.attestation = attestation
    IN
    /\ ret' = [op |-> "checkPolicy", sender |-> sender, account |-> account,
               target |-> target, value |-> value, data |-> data,
               attestation |-> attestation,
               reverted |-> out.reverted, result |-> (out.result /\ ~used),
               reason |-> IF out.result /\ used THEN "Attestation already used"
                          ELSE out.reason]
    /\ UNCHANGED <<_policies, _rules, spendStates, lastExecutionTime, now, _status, stack,
                   executionCount, initialized>>

\* Faulty variant: a check that allows the call also records it.
CheckPolicy_Records(sender, account, target, value, data, attestation) ==
    LET out == checkPolicy(account, target, value, data, attestation)
        r == RecordRules(account, 0, spendStates, lastExecutionTime, target, value, data)
    IN
    /\ ret' = [op |-> "checkPolicy", sender |-> sender, account |-> account,
               target |-> target, value |-> value, data |-> data,
               attestation |-> attestation,
               reverted |-> out.reverted, result |-> out.result, reason |-> out.reason]
    /\ IF ~out.reverted /\ out.result /\ _policies[account].exists /\ ~r.reverted
       THEN /\ spendStates' = r.spendStates
            /\ lastExecutionTime' = r.lastExecutionTime
       ELSE UNCHANGED <<spendStates, lastExecutionTime>>
    /\ UNCHANGED <<_policies, _rules, now, _status, stack, executionCount, initialized>>

\* checkPolicy writes no storage (the reentrancy status is restored when it
\* returns); its outcome and the emitted reason are recorded.
CheckPolicy(sender, account, target, value, data, attestation) ==
    LET out == checkPolicy(account, target, value, data, attestation) IN
    /\ ret' = [op |-> "checkPolicy", sender |-> sender, account |-> account,
               target |-> target, value |-> value, data |-> data,
               attestation |-> attestation,
               reverted |-> out.reverted, result |-> out.result, reason |-> out.reason]
    /\ UNCHANGED <<_policies, _rules, spendStates, lastExecutionTime, now, _status, stack,
                   executionCount, initialized>>

\* recordExecution: any address may call it for any account.
RecordExecution(sender, account, target, value, data) ==
    LET policy == _policies[account]
        r == RecordRules(account, 0, spendStates, lastExecutionTime, target, value, data)
    IN
    /\ ret' = [op |-> "recordExecution", sender |-> sender, account |-> account,
               target |-> target, value |-> value, data |-> data,
               reverted |-> (policy.exists /\ r.reverted)]
    /\ IF policy.exists /\ ~r.reverted
       THEN /\ spendStates' = r.spendStates
            /\ lastExecutionTime' = r.lastExecutionTime
       ELSE UNCHANGED <<spendStates, lastExecutionTime>>
    /\ UNCHANGED <<_policies, _rules, now, _status, stack, executionCount, initialized>>

\* A later block: block.timestamp advances.
Tick ==
    /\ now < MaxTime
    /\ now' = now + 1
    /\ ret' = [op |-> "tick"]
    /\ UNCHANGED <<_policies, _rules, spendStates, lastExecutionTime, _status, stack,
                   executionCount, initialized>>

\* ───────────────────────────── PolicyEngine: an evaluation call by call ─────────────────────────────

\* Faulty variant: the reentrancy status is not consulted.
ReentrantCall_Unchecked(status) == FALSE

\* The nonReentrant modifier of checkPolicy (OpenZeppelin ReentrancyGuard):
\* a call that finds the status ENTERED reverts.
ReentrantCall(status) == status = "ENTERED"

\* The frame of checkPolicy or evaluateDetailed: its arguments, the loop
\* index i, and whether the rule loop has ended early.
EngineFrame(fn, sender, account, target, value, data, attestation) ==
    [contract |-> "PolicyEngine", fn |-> fn, sender |-> sender, account |-> account,
     target |-> target, value |-> value, data |-> data, attestation |-> attestation,
     i |-> 0, stop |-> FALSE]

\* The frame of a rule singleton's evaluate, called from _evaluateRule.
EvaluatorFrame(ruleType) ==
    [contract |-> "RuleEvaluator", fn |-> "evaluate", ruleType |-> ruleType]

\* The code that is running can call into the engine: no frame of the
\* engine or of a rule singleton is open. checkPolicy and evaluateDetailed
\* call nothing but the singletons' evaluate (and the ecrecover precompile),
\* and no evaluate calls anything.
CallsEngine(frames) == frames = <<>>

\* checkPolicy is entered: the guard is passed and the status is set.
EnterCheckPolicy(sender, account, target, value, data, attestation) ==
    /\ CallsEngine(stack)
    /\ IF ReentrantCall(_status)
       THEN /\ ret' = [op |-> "checkPolicy", sender |-> sender, account |-> account,
                       target |-> target, value |-> value, data |-> data,
                       attestation |-> attestation,
                       reverted |-> TRUE, result |-> FALSE, reason |-> ""]
            /\ UNCHANGED <<_status, stack>>
       ELSE /\ _status' = "ENTERED"
            /\ stack' = Append(stack, EngineFrame("checkPolicy", sender, account, target,
                                                   value, data, attestation))
            /\ UNCHANGED ret
    /\ UNCHANGED <<_policies, _rules, spendStates, lastExecutionTime, now,
                   executionCount, initialized>>

\* evaluateDetailed is entered; it carries no guard.
EnterEvaluateDetailed(sender, account, target, value, data, attestation) ==
    /\ CallsEngine(stack)
    /\ stack' = Append(stack, EngineFrame("evaluateDetailed", sender, account, target,
                                          value, data, attestation))
    /\ UNCHANGED <<_policies, _rules, spendStates, lastExecutionTime, now, ret, _status,
                   executionCount, initialized>>

\* The rule loop passes over a disabled rule.
SkipDisabledRule ==
    /\ stack # <<>>
    /\ LET f == stack[Len(stack)] IN
        /\ f.contract = "PolicyEngine"
        /\ ~f.stop
        /\ f.i < _policies[f.account].ruleCount
        /\ ~_rules[f.account][f.i].enabled
        /\ stack' = [stack EXCEPT ![Len(stack)].i = f.i + 1]
    /\ UNCHANGED <<_policies, _rules, spendStates, lastExecutionTime, now, ret, _status,
                   executionCount, initialized>>

\* _evaluateRule calls the singleton of the rule's type.
CallEvaluator ==
    /\ stack # <<>>
    /\ LET f == stack[Len(stack)] IN
        /\ f.contract = "PolicyEngine"
        /\ ~f.stop
        /\ f.i < _policies[f.account].ruleCount
        /\ _rules[f.account][f.i].enabled
        /\ stack' = Append(stack, EvaluatorFrame(_rules[f.account][f.i].ruleType))
    /\ UNCHANGED <<_policies, _rules, spendStates, lastExecutionTime, now, ret, _status,
                   executionCount, initialized>>

\* The singleton returns (or reverts) to the rule loop: checkPolicy leaves the
\* loop at a failure, evaluateDetailed goes on; a revert ends both.
ReturnFromEvaluator ==
    /\ Len(stack) >= 2
    /\ stack[Len(stack)].contract = "RuleEvaluator"
    /\ LET f == stack[Len(stack) - 1]
           r == evaluateRule(_rules[f.account][f.i], f.account, f.target, f.value, f.data)
           g == IF r.reverted \/ (~r.passed /\ f.fn = "checkPolicy")
                THEN [f EXCEPT !.stop = TRUE]
                ELSE [f EXCEPT !.i = f.i + 1]
       IN stack' = Append(SubSeq(stack, 1, Len(stack) - 2), g)
    /\ UNCHANGED <<_policies, _rules, spendStates, lastExecutionTime, now, ret, _status,
                   executionCount, initialized>>

\* The engine function returns: the attestation phase runs, the outcome is
\* the function's outcome, and checkPolicy's guard resets the status.
ExitEvaluation ==
    /\ stack # <<>>
    /\ LET f == stack[Len(stack)] IN
        /\ f.contract = "PolicyEngine"
        /\ f.stop \/ f.i >= _policies[f.account].ruleCount
        /\ IF f.fn = "checkPolicy"
           THEN LET out == checkPolicy(f.account, f.target, f.value, f.data, f.attestation)
                IN /\ ret' = [op |-> "checkPolicy", sender |-> f.sender,
                              account |-> f.account, target |-> f.target,
                              value |-> f.value, data |-> f.data,
                              attestation |-> f.attestation, reverted |-> out.reverted,
                              result |-> out.result, reason |-> out.reason]
                   /\ _status' = "NOT_ENTERED"
           ELSE LET out == evaluateDetailed(f.account, f.target, f.value, f.data,
                                            f.attestation)
                IN /\ ret' = [op |-> "evaluateDetailed", sender |-> f.sender,
                              account |-> f.account, target |-> f.target,
                              value |-> f.value, data |-> f.data,
                              attestation |-> f.attestation, reverted |-> out.reverted,
                              passed |-> out.passed, ruleResults |-> out.ruleResults,
                              reasons |-> out.reasons]
                   /\ UNCHANGED _status
        /\ stack' = SubSeq(stack, 1, Len(stack) - 1)
    /\ UNCHANGED <<_policies, _rules, spendStates, lastExecutionTime, now,
                   executionCount, initialized>>

\* ───────────────────────────── PolicyGuard: guardedExecute call by call ─────────────────────────────

\* The MockGuardedContract that the test set-up deploys; it is msg.sender of
\* the engine calls made by the enforcePolicy modifier.
GUARDED == 7

\* Faulty variant: the result of the check is not looked at.
PolicyDenied_Ignored(allowed) == FALSE

\* `if (!allowed) revert PolicyDenied();`
PolicyDenied(allowed) == ~allowed

\* A call made while guardedExecute runs: a call into the engine with its
\* arguments, or the guarded body.
EngineCall(fn, account, target, value, data) ==
    [fn |-> fn, account |-> account, target |-> target, value |-> value, data |-> data]

BodyCall == [fn |-> "body"]

\* The frame of guardedExecute once the check has allowed the call: the
\* arguments of the modifier, where it stands, the calls made so far, and
\* executionCount at entry (a revert of the transaction restores it).
GuardFrame(sender, target, value, data, attestation, calls) ==
    [contract |-> "MockGuardedContract", fn |-> "guardedExecute", sender |-> sender,
     target |-> target, value |-> value, data |-> data, attestation |-> attestation,
     pc |-> "body", calls |-> calls, saved |-> executionCount]

\* guardedExecute is called: the modifier calls checkPolicy for msg.sender
\* and reverts with PolicyDenied when the answer is false; a revert of
\* checkPolicy itself bubbles up.
EnterGuardedExecute(sender, target, value, data, attestation) ==
    /\ stack = <<>>
    /\ executionCount < MaxExecutions
    /\ LET out == checkPolicy(sender, target, value, data, attestation)
           calls == <<EngineCall("checkPolicy", sender, target, value, data)>>
       IN IF out.reverted \/ PolicyDenied(out.result)
          THEN /\ ret' = [op |-> "guardedExecute", sender |-> sender, target |-> target,
                          value |-> value, data |-> data, attestation |-> attestation,
                          reverted |-> TRUE,
                          error |-> IF out.reverted THEN "" ELSE "PolicyDenied",
                          calls |-> calls]
               /\ UNCHANGED stack
          ELSE /\ ret' = [op |-> "checkPolicy", sender |-> GUARDED, account |-> sender,
                          target |-> target, value |-> value, data |-> data,
                          attestation |-> attestation, reverted |-> FALSE,
                          result |-> out.result, reason |-> out.reason]
               /\ stack' = <<GuardFrame(sender, target, value, data, attestation, calls)>>
    /\ UNCHANGED <<_policies, _rules, spendStates, lastExecutionTime, now, _status,
                   executionCount, initialized>>

\* The guarded body (`_;`): executionCount++.
GuardedBody ==
    /\ stack # <<>>
    /\ LET f == stack[Len(stack)] IN
        /\ f.contract = "MockGuardedContract"
        /\ f.pc = "body"
        /\ executionCount' = executionCount + 1
        /\ stack' = <<[f EXCEPT !.pc = "record", !.calls = Append(f.calls, BodyCall)]>>
    /\ UNCHANGED <<_policies, _rules, spendStates, lastExecutionTime, now, ret, _status,
                   initialized>>

\* After the body the modifier calls recordExecution for msg.sender and the
\* transaction ends; a revert of recordExecution reverts the whole
\* transaction, the body's write included.
GuardedRecord ==
    /\ stack # <<>>
    /\ LET f == stack[Len(stack)]
           policy == _policies[f.sender]
           r == RecordRules(f.sender, 0, spendStates, lastExecutionTime,
                            f.target, f.value, f.data)
           calls == Append(f.calls, EngineCall("recordExecution", f.sender, f.target,
                                               f.value, f.data))
       IN
        /\ f.contract = "MockGuardedContract"
        /\ f.pc = "record"
        /\ ret' = [op |-> "guardedExecute", sender |-> f.sender, target |-> f.target,
                   value |-> f.value, data |-> f.data, attestation |-> f.attestation,
                   reverted |-> (policy.exists /\ r.reverted), error |-> "",
                   calls |-> calls]
        /\ IF policy.exists /\ r.reverted
           THEN /\ executionCount' = f.saved
                /\ UNCHANGED <<spendStates, lastExecutionTime>>
           ELSE /\ UNCHANGED executionCount
                /\ IF policy.exists
                   THEN /\ spendStates' = r.spendStates
                        /\ lastExecutionTime' = r.lastExecutionTime
                   ELSE UNCHANGED <<spendStates, lastExecutionTime>>
        /\ stack' = <<>>
    /\ UNCHANGED <<_policies, _rules, now, _status, initialized>>

\* ───────────────────────────── PolicyKit7579Module ─────────────────────────────

\* abi.encode(ownerSignature, policyAttestation): two head offsets, then each
\* byte string as its length followed by its words (lengths counted in words).
encodeSignature(ownerSig, attestation) ==
    <<2, 3 + Len(ownerSig), Len(ownerSig)>> \o ownerSig \o <<Len(attestation)>> \o attestation

\* One `bytes` of abi.decode(signature, (bytes, bytes)): the length word at
\* the offset and the words after it must lie inside the blob.
DecodeBytes(data, off) ==
    IF off + 1 > Len(data) THEN Reverted
    ELSE LET n == data[off + 1] IN
         IF off + 1 + n > Len(data) THEN Reverted
         ELSE Decoded([i \in 1..n |-> data[off + 1 + i]])

\* abi.decode(signature, (bytes, bytes)), validateUserOp lines 101-104.
decodeSignature(signature) ==
    IF Len(signature) < 2 THEN Reverted
    ELSE LET ownerSig == DecodeBytes(signature, signature[1])
             attestation == DecodeBytes(signature, signature[2])
         IN IF ownerSig.reverted \/ attestation.reverted THEN Reverted
            ELSE Decoded([ownerSig |-> ownerSig.value, attestation |-> attestation.value])

isInitialized(account) == initialized[account]

\* onInstall, lines 54-58.
OnInstall(sender) ==
    /\ IF initialized[sender]
       THEN /\ ret' = [op |-> "onInstall", sender |-> sender, reverted |-> TRUE,
                       error |-> "AlreadyInitialized"]
            /\ UNCHANGED initialized
       ELSE /\ initialized' = [initialized EXCEPT ![sender] = TRUE]
            /\ ret' = [op |-> "onInstall", sender |-> sender, reverted |-> FALSE,
                       error |-> ""]
    /\ UNCHANGED <<_policies, _rules, spendStates, lastExecutionTime, now, _status, stack,
                   executionCount>>

\* onUninstall, lines 62-66.
OnUninstall(sender) ==
    /\ IF ~initialized[sender]
       THEN /\ ret' = [op |-> "onUninstall", sender |-> sender, reverted |-> TRUE,
                       error |-> "NotInitialized"]
            /\ UNCHANGED initialized
       ELSE /\ initialized' = [initialized EXCEPT ![sender] = FALSE]
            /\ ret' = [op |-> "onUninstall", sender |-> sender, reverted |-> FALSE,
                       error |-> ""]
    /\ UNCHANGED <<_policies, _rules, spendStates, lastExecutionTime, now, _status, stack,
                   executionCount>>

\* validateUserOp: 1 for a caller that is not initialized; otherwise the
\* compound signature is decoded (a failed decode reverts) and the result is
\* 0 with or without a policy.
ValidateUserOp(sender, userOpHash, signature) ==
    LET decoded == decodeSignature(signature) IN
    /\ ret' = [op |-> "validateUserOp", sender |-> sender, userOpHash |-> userOpHash,
               signature |-> signature,
               reverted |-> (initialized[sender] /\ decoded.reverted),
               validationData |-> IF ~initialized[sender] THEN 1
                                  ELSE IF decoded.reverted THEN -1
                                  ELSE IF ~hasPolicy(sender) THEN 0
                                  ELSE 0]
    /\ UNCHANGED <<_policies, _rules, spendStates, lastExecutionTime, now, _status, stack,
                   executionCount, initialized>>

\* ───────────────────────────── AttestationVerifier: one verification ─────────────────────────────

\* _verifyAttestation applied to an approval, a signature and an expected
\* signer at the current time.
VerifyAttestation(approval, signature, expectedSigner) ==
    LET valid == verifyAttestation(approval, signature, expectedSigner) IN
    /\ ret' = [op |-> "verifyAttestation", approval |-> approval, signature |-> signature,
               expectedSigner |-> expectedSigner, reverted |-> valid.reverted,
               valid |-> IF valid.reverted THEN FALSE ELSE valid.value]
    /\ UNCHANGED <<_policies, _rules, spendStates, lastExecutionTime, now, _status, stack,
                   executionCount, initialized>>

\* ───────────────────────────── PolicyKit7579Module: the execution hook ─────────────────────────────

\* The msgData handed to preCheck: the account's execute calldata. Fewer than
\* 4 bytes; 4 to 99 bytes; a selector followed by abi.encode(target, value,
\* data) (132 bytes and more); 100 bytes and more that abi.decode rejects.
ShortMsgData == [length |-> 0, wellFormed |-> FALSE]
SmallMsgData == [length |-> 4, wellFormed |-> FALSE]
MalformedMsgData == [length |-> 100, wellFormed |-> FALSE]
ExecuteMsgData(target, value, data) ==
    [length |-> 132 + data.length, wellFormed |-> TRUE,
     target |-> target, value |-> value, data |-> data]

Execution(target, value, data) == [target |-> target, value |-> value, data |-> data]

\* _decodeExecution: (address(0), 0, "") below 100 bytes, abi.decode of the
\* bytes after the selector otherwise.
decodeExecution(msgData) ==
    IF msgData.length < 100 THEN Decoded(Execution(0, 0, EmptyData))
    ELSE IF msgData.wellFormed
         THEN Decoded(Execution(msgData.target, msgData.value, msgData.data))
    ELSE Reverted

\* hookData: empty bytes, or abi.encode(target, value, data) as preCheck
\* returns it and postCheck decodes it.
EmptyHookData == [length |-> 0]
encodeHookData(execution) == [length |-> 128 + execution.data.length, execution |-> execution]
decodeHookData(hookData) == hookData.execution

\* An execution of the account between its preCheck and its postCheck; the
\* account holds the hookData.
HookFrame(sender, hookData) ==
    [contract |-> "PolicyKit7579Module", fn |-> "hook", sender |-> sender,
     hookData |-> hookData]

\* Faulty variant: the hook hands the engine the attestation it was given.
HookAttestation_Forwarded(attestation) == attestation

\* The attestation argument of the hook's checkPolicy call: always `""`.
HookAttestation(attestation) == EmptyAttestation

\* preCheck, called by the account (msg.sender) before an execution. The
\* attestation that the user operation's signature carried is not among its
\* arguments; `carried` stands for it.
PreCheck(sender, msgSender, msgValue, msgData, carried) ==
    /\ Len(stack) < MaxExecutions
    /\ LET decoded == decodeExecution(msgData)
           e == decoded.value
           out == checkPolicy(sender, e.target, e.value, e.data, HookAttestation(carried))
           hookData == IF ~initialized[sender] \/ msgData.length < 4
                       THEN EmptyHookData ELSE encodeHookData(e)
           error == IF ~initialized[sender] \/ msgData.length < 4 THEN ""
                    ELSE IF decoded.reverted THEN "decode"
                    ELSE IF out.reverted THEN "checkPolicy"
                    ELSE IF ~out.result THEN "PolicyValidationFailed"
                    ELSE ""
       IN /\ ret' = [op |-> "preCheck", sender |-> sender, msgSender |-> msgSender,
                     msgValue |-> msgValue, msgData |-> msgData, carried |-> carried,
                     reverted |-> (error # ""), error |-> error,
                     hookData |-> IF error # "" THEN EmptyHookData ELSE hookData]
          /\ stack' = IF error # "" THEN stack
                      ELSE Append(stack, HookFrame(sender, hookData))
    /\ UNCHANGED <<_policies, _rules, spendStates, lastExecutionTime, now, _status,
                   executionCount, initialized>>

\* postCheck, called by the account after the k-th execution under way with
\* the hookData of its preCheck: nothing for empty hookData, recordExecution
\* for msg.sender otherwise. A revert of recordExecution reverts the
\* execution.
PostCheck(k) ==
    /\ k \in 1..Len(stack)
    /\ LET f == stack[k]
           e == decodeHookData(f.hookData)
           policy == _policies[f.sender]
           r == RecordRules(f.sender, 0, spendStates, lastExecutionTime,
                            e.target, e.value, e.data)
       IN
        /\ f.contract = "PolicyKit7579Module"
        /\ IF f.hookData.length = 0
           THEN /\ ret' = [op |-> "postCheck", sender |-> f.sender,
                           hookData |-> f.hookData, reverted |-> FALSE]
                /\ UNCHANGED <<spendStates, lastExecutionTime>>
           ELSE /\ ret' = [op |-> "postCheck", sender |-> f.sender,
                           hookData |-> f.hookData,
                           reverted |-> (policy.exists /\ r.reverted)]
                /\ IF policy.exists /\ ~r.reverted
                   THEN /\ spendStates' = r.spendStates
                        /\ lastExecutionTime' = r.lastExecutionTime
                   ELSE UNCHANGED <<spendStates, lastExecutionTime>>
        /\ stack' = SubSeq(stack, 1, k - 1) \o SubSeq(stack, k + 1, Len(stack))
    /\ UNCHANGED <<_policies, _rules, now, _status, executionCount, initialized>>

\* ───────────────────────────── Lit Action and SDK: producing an attestation ─────────────────────────────

\* A CID string is a sequence of characters; a bytes32 holds Bytes32Len of
\* them (32 bytes, scaled).
Bytes32Len == 2

\* sdk cidToBytes32: the first 32 bytes of the string's UTF-8 encoding,
\* padded with zero bytes.
cidToBytes32(cid) == [i \in 1..Bytes32Len |-> IF i <= Len(cid) THEN cid[i] ELSE 0]

\* ethers.utils.solidityKeccak256(types, values): keccak256 of the tightly
\* packed values.
solidityKeccak256(types, values) == <<"keccak256", "packed", types, values>>

\* The bytes32 that the Lit Action puts in the policyCID position:
\* keccak256(solidityKeccak256(["string"], [policyCID])).
litPolicyCID(cid) == keccak256(solidityKeccak256(<<"string">>, <<cid>>))

\* The message hash that the Lit Action signs (go, step 3): the packed hash
\* of the seven values, without type hash and without domain separator.
messageHash(params) ==
    solidityKeccak256(
        <<"address", "address", "uint256", "bytes32", "uint256", "bytes32", "uint256">>,
        <<params.caller, params.target, params.value, keccak256(params.calldata),
          params.expiry, litPolicyCID(params.policyCID), params.chainId>>)

\* jsParams of the Lit Action as LitClient.executePolicy passes them.
JsParams(policyCID, caller, target, value, calldata, chainId, expiry) ==
    [policyCID |-> policyCID, caller |-> caller, target |-> target, value |-> value,
     calldata |-> calldata, chainId |-> chainId, expiry |-> expiry]

\* Lit.Actions.signEcdsa with the PKP's public key.
signEcdsa(toSign) == Signature(PKP, toSign)

\* AttestationBuilder.buildPolicyApproval(...).message with the policy CID in
\* the bytes32 form the SDK stores on-chain.
buildPolicyApproval(params) ==
    PolicyApproval(params.caller, params.target, params.value, keccak256(params.calldata),
                   params.expiry, cidToBytes32(params.policyCID), params.chainId)

\* AttestationBuilder.encodeAttestation
encodeAttestation(signed) == EncodedAttestation(signed.approval, signed.signature)

\* The Lit Action `go`: when the policy was fetched and every off-chain rule
\* passed (`offChainPassed`), it signs messageHash with the PKP and responds
\* approved with the signature and the expiry; otherwise it responds not
\* approved.
Go(params, offChainPassed) ==
    /\ ret' = IF offChainPassed
              THEN [op |-> "go", params |-> params, approved |-> TRUE,
                    signature |-> signEcdsa(messageHash(params)),
                    expiry |-> params.expiry]
              ELSE [op |-> "go", params |-> params, approved |-> FALSE]
    /\ UNCHANGED <<_policies, _rules, spendStates, lastExecutionTime, now, _status, stack,
                   executionCount, initialized>>

\* The approved call is submitted: checkPolicy for the caller with
\* encodeAttestation of the approval and the Lit Action's signature.
SubmitApproved(sender) ==
    /\ ret.op = "go"
    /\ ret.approved
    /\ CheckPolicy(sender, ret.params.caller, ret.params.target, ret.params.value,
                   ret.params.calldata,
                   encodeAttestation([approval |-> buildPolicyApproval(ret.params),
                                      signature |-> ret.signature]))

\* ───────────────────────────── SDK: policy JSON ─────────────────────────────

\* JavaScript values: strings, numbers, booleans, arrays, and objects whose
\* properties keep their insertion order.
JStr(str) == [t |-> "string", str |-> str]
JNum(n) == [t |-> "number", n |-> n]
JBool(b) == [t |-> "boolean", b |-> b]
JArr(items) == [t |-> "array", items |-> items]
JObj(pairs) == [t |-> "object", pairs |-> pairs]
Prop(k, v) == [k |-> k, v |-> v]

\* Object.keys(obj) as a sequence, `k in obj`, and obj[k].
Keys(obj) == [i \in 1..Len(obj.pairs) |-> obj.pairs[i].k]
Has(obj, k) == \E i \in 1..Len(obj.pairs) : obj.pairs[i].k = k
Get(obj, k) == obj.pairs[CHOOSE i \in 1..Len(obj.pairs) : obj.pairs[i].k = k].v

\* The property names of a policy document in the order of
\* Array.prototype.sort (by UTF-16 code units).
SortedNames ==
    <<"cooldownSeconds", "createdAt", "failMode", "id", "maxValue", "mustSucceed",
      "offChain", "onChain", "rules", "type", "version">>

\* keys.sort()
Sort(keys) == SelectSeq(SortedNames, LAMBDA k : \E i \in 1..Len(keys) : keys[i] = k)

\* JSON.stringify(value, replacer) with an array replacer: at every nesting
\* level an object is written with exactly those of its properties whose
\* names are in the array, in the array's order; arrays are written element
\* by element. The text is represented by the value it denotes.
RECURSIVE stringify(_, _)
stringify(value, replacer) ==
    IF value.t = "object" THEN
        LET kept == SelectSeq(replacer, LAMBDA k : Has(value, k)) IN
        JObj([i \in 1..Len(kept) |-> Prop(kept[i], stringify(Get(value, kept[i]), replacer))])
    ELSE IF value.t = "array" THEN
        JArr([i \in 1..Len(value.items) |-> stringify(value.items[i], replacer)])
    ELSE value

\* serializePolicy: JSON.stringify(policy, Object.keys(policy).sort()).
serializePolicy(policy) == [text |-> stringify(policy, Sort(Keys(policy)))]

\* JSON.parse of a text that JSON.stringify wrote.
JSONparse(json) == json.text

IsString(obj, k) == Has(obj, k) /\ Get(obj, k).t = "string"
IsArray(obj, k) == Has(obj, k) /\ Get(obj, k).t = "array"

\* ISO datetimes as z.string().datetime() accepts them.
DateTimes == {"2024-01-01T00:00:00Z"}

\* onChainRuleSchema and offChainRuleSchema, for the rule types MAX_VALUE,
\* COOLDOWN and REQUIRE_SIMULATION.
onChainRuleSchema(rule) ==
    /\ rule.t = "object"
    /\ IsString(rule, "type")
    /\ \/ /\ Get(rule, "type").str = "MAX_VALUE"
          /\ IsString(rule, "maxValue")
       \/ /\ Get(rule, "type").str = "COOLDOWN"
          /\ Has(rule, "cooldownSeconds")
          /\ Get(rule, "cooldownSeconds").t = "number"
          /\ Get(rule, "cooldownSeconds").n > 0

offChainRuleSchema(rule) ==
    /\ rule.t = "object"
    /\ IsString(rule, "type")
    /\ Get(rule, "type").str = "REQUIRE_SIMULATION"
    /\ Has(rule, "mustSucceed")
    /\ Get(rule, "mustSucceed").t = "boolean"

\* Whether policySchema accepts the value.
policySchema(value) ==
    /\ value.t = "object"
    /\ IsString(value, "version")
    /\ IsString(value, "id") /\ Get(value, "id").str # ""
    /\ IsString(value, "createdAt") /\ Get(value, "createdAt").str \in DateTimes
    /\ IsString(value, "failMode") /\ Get(value, "failMode").str \in FailModes
    /\ Has(value, "rules")
    /\ LET rules == Get(value, "rules") IN
        /\ rules.t = "object"
        /\ IsArray(rules, "onChain")
        /\ \A i \in 1..Len(Get(rules, "onChain").items) :
              onChainRuleSchema(Get(rules, "onChain").items[i])
        /\ IsArray(rules, "offChain")
        /\ \A i \in 1..Len(Get(rules, "offChain").items) :
              offChainRuleSchema(Get(rules, "offChain").items[i])

\* What z.object(...).parse returns for an accepted rule or policy: the
\* properties of the schema, in the schema's order.
RuleShape(rule) ==
    LET type == Get(rule, "type").str
        name == IF type = "MAX_VALUE" THEN "maxValue"
                ELSE IF type = "COOLDOWN" THEN "cooldownSeconds"
                ELSE "mustSucceed"
    IN JObj(<<Prop("type", Get(rule, "type")), Prop(name, Get(rule, name))>>)

PolicyShape(value) ==
    LET rules == Get(value, "rules")
        onChain == Get(rules, "onChain").items
        offChain == Get(rules, "offChain").items
    IN JObj(<<Prop("version", Get(value, "version")),
              Prop("id", Get(value, "id")),
              Prop("createdAt", Get(value, "createdAt")),
              Prop("failMode", Get(value, "failMode")),
              Prop("rules", JObj(<<
                  Prop("onChain", JArr([i \in 1..Len(onChain) |-> RuleShape(onChain[i])])),
                  Prop("offChain", JArr([i \in 1..Len(offChain) |-> RuleShape(offChain[i])]))
              >>))>>)

\* deserializePolicy: policySchema.parse(JSON.parse(json)); a ZodError is a
\* throw.
deserializePolicy(json) ==
    LET parsed == JSONparse(json) IN
    IF policySchema(parsed) THEN Decoded(PolicyShape(parsed)) ELSE Reverted

\* IPFSClient.verify(cid, policy) when the gateway returns `content` for the
\* CID: fetch deserializes the content; both policies are serialized and the
\* strings compared; any throw gives false.
verify(content, policy) ==
    LET fetched == deserializePolicy(content) IN
    IF fetched.reverted THEN FALSE
    ELSE serializePolicy(fetched.value) = serializePolicy(policy)

\* serializePolicy(policy) is called.
SerializePolicy ==
    /\ ret.op = "policy"
    /\ ret' = [op |-> "serializePolicy", policy |-> ret.policy,
               json |-> serializePolicy(ret.policy)]
    /\ UNCHANGED <<_policies, _rules, spendStates, lastExecutionTime, now, _status, stack,
                   executionCount, initialized>>

\* deserializePolicy is called on the string that serializePolicy returned.
DeserializePolicy ==
    /\ ret.op = "serializePolicy"
    /\ LET out == deserializePolicy(ret.json) IN
       ret' = [op |-> "deserializePolicy", policy |-> ret.policy, json |-> ret.json,
               threw |-> out.reverted,
               value |-> IF out.reverted THEN JObj(<<>>) ELSE out.value]
    /\ UNCHANGED <<_policies, _rules, spendStates, lastExecutionTime, now, _status, stack,
                   executionCount, initialized>>

\* IPFSClient.verify(cid, expected), the CID being that of the string that
\* serializePolicy returned (IPFSClient.pin pins that string).
Verify(expected) ==
    /\ ret.op = "serializePolicy"
    /\ ret' = [op |-> "verify", policy |-> ret.policy, json |-> ret.json,
               expected |-> expected, result |-> verify(ret.json, expected)]
    /\ UNCHANGED <<_policies, _rules, spendStates, lastExecutionTime, now, _status, stack,
                   executionCount, initialized>>

\* ───────────────────────────── Inputs ─────────────────────────────

\* Sequences over S of length at most n.
SeqsUpTo(S, n) == UNION {[1..k -> S] : k \in 0..n}

CIDs == {MOCK_CID, NEW_CID}
\* The attester: none, or the PKP.
PkpAddresses == {0, PKP}

AllowUniswap == OnChainRule("ALLOW_TARGETS", encodeTargetListParams(<<UNISWAP>>), TRUE)
MaxOneEther == OnChainRule("MAX_VALUE", encodeMaxValueParams(ONE_ETHER), TRUE)
MaxZeroDisabled == OnChainRule("MAX_VALUE", encodeMaxValueParams(0), FALSE)
DenyTransfer ==
    OnChainRule("DENY_SELECTORS", encodeSelectorListParams(<<TRANSFER_SELECTOR>>), TRUE)
\* A MAX_VALUE rule stored with empty parameter bytes.
MaxValueNoParams == OnChainRule("MAX_VALUE", <<>>, TRUE)

\* Stateful rules: a native-ETH spend limit of 1 ETH per 2-second window and
\* a 2-second cooldown, each also in a disabled copy.
SpendEth == OnChainRule("SPEND_LIMIT", encodeSpendLimitParams(0, ONE_ETHER, 2), TRUE)
SpendEthDisabled == OnChainRule("SPEND_LIMIT", encodeSpendLimitParams(0, ONE_ETHER, 2), FALSE)
Cooldown2 == OnChainRule("COOLDOWN", encodeCooldownParams(2), TRUE)
Cooldown2Disabled == OnChainRule("COOLDOWN", encodeCooldownParams(2), FALSE)
\* A spend limit of 1 ETH per 2-second window on the ERC-20 token at AAVE.
SpendToken == OnChainRule("SPEND_LIMIT", encodeSpendLimitParams(AAVE, ONE_ETHER, 2), TRUE)
\* Disabled rules that would deny every call, or revert, if they were evaluated.
DenyAllDisabled == OnChainRule("ALLOW_TARGETS", encodeTargetListParams(<<>>), FALSE)
MaxValueNoParamsDisabled == OnChainRule("MAX_VALUE", <<>>, FALSE)

\* ───────────────────────────── Spec: two accounts, one engine ─────────────────────────────

StoreRuleLists == SeqsUpTo({AllowUniswap}, MaxRules)
StoreTargets == {UNISWAP, MALICIOUS}
StoreValues == {0, TWO_ETHER}
StoreData == {EmptyData, SelectorCall(TRANSFER_SELECTOR)}
StoreAttestations == {EmptyAttestation, MalformedAttestation}

StoreSetPolicySet ==
    \E sender \in Accounts, pkpAddress \in PkpAddresses,
       requireAttestation \in BOOLEAN, failMode \in FailModes, rs \in StoreRuleLists :
        SetPolicySet(sender, MOCK_CID, pkpAddress, requireAttestation, failMode, rs)

StoreRemovePolicySet == \E sender \in Accounts : RemovePolicySet(sender)

StoreCheckPolicy ==
    \E account \in Accounts, target \in StoreTargets, value \in StoreValues,
       data \in StoreData, attestation \in StoreAttestations :
        CheckPolicy(account, account, target, value, data, attestation)

StoreRecordExecution ==
    \E sender \in Accounts, account \in Accounts :
        RecordExecution(sender, account, UNISWAP, 0, EmptyData)

Next ==
    \/ StoreSetPolicySet
    \/ StoreRemovePolicySet
    \/ StoreCheckPolicy
    \/ StoreRecordExecution

Spec == Init /\ [][Next]_vars

\* ───────────────────────────── SpecReplace: one owner replacing its policy ─────────────────────────────

ReplaceRuleLists == SeqsUpTo({AllowUniswap, MaxOneEther, MaxZeroDisabled}, MaxRules)
ReplaceValues == {HALF_ETHER, TWO_ETHER}

ReplaceSetPolicySet ==
    \E policyCID \in CIDs, pkpAddress \in PkpAddresses,
       requireAttestation \in BOOLEAN, failMode \in FailModes, rs \in ReplaceRuleLists :
        SetPolicySet(ALICE, policyCID, pkpAddress, requireAttestation, failMode, rs)

ReplaceCheckPolicy ==
    \E sender \in Accounts, target \in StoreTargets, value \in ReplaceValues,
       attestation \in StoreAttestations :
        CheckPolicy(sender, ALICE, target, value, EmptyData, attestation)

NextReplace ==
    \/ ReplaceSetPolicySet
    \/ RemovePolicySet(ALICE)
    \/ ReplaceCheckPolicy

SpecReplace == Init /\ [][NextReplace]_vars

\* ───────────────────────────── SpecRules: the stateless rule kinds ─────────────────────────────

TargetLists == SeqsUpTo({UNISWAP, AAVE}, MaxListLen)
SelectorLists == SeqsUpTo({TRANSFER_SELECTOR, APPROVE_SELECTOR}, MaxListLen)
\* transferFrom (0x23b872dd, scaled): a selector that is in no list.
TRANSFER_FROM_SELECTOR == 3

\* Every enabled stateless rule over the small lists and amounts.
Tier1Rules ==
    {OnChainRule(t, encodeTargetListParams(l), TRUE) :
        t \in {"ALLOW_TARGETS", "DENY_TARGETS"}, l \in TargetLists}
    \cup {OnChainRule(t, encodeSelectorListParams(l), TRUE) :
        t \in {"ALLOW_SELECTORS", "DENY_SELECTORS"}, l \in SelectorLists}
    \cup {OnChainRule("MAX_VALUE", encodeMaxValueParams(m), TRUE) : m \in 0..(MaxCallValue - 1)}

MixedRules == {AllowUniswap, MaxOneEther, MaxZeroDisabled, DenyTransfer, MaxValueNoParams}

\* One rule of any kind, or a list mixing kinds.
RulesRuleLists == {<<r>> : r \in Tier1Rules} \cup SeqsUpTo(MixedRules, MaxRules)

RulesData ==
    {EmptyData, ShortData, SelectorCall(TRANSFER_SELECTOR), SelectorCall(TRANSFER_FROM_SELECTOR),
     TokenCall(APPROVE_SELECTOR, MALICIOUS, 1)}

RulesSetPolicySet ==
    \E rs \in RulesRuleLists :
        SetPolicySet(ALICE, MOCK_CID, 0, FALSE, "CLOSED", rs)

RulesCheckPolicy ==
    \E target \in Targets, value \in Values, data \in RulesData :
        CheckPolicy(ALICE, ALICE, target, value, data, EmptyAttestation)

NextRules ==
    \/ RulesSetPolicySet
    \/ RemovePolicySet(ALICE)
    \/ RulesCheckPolicy

SpecRules == Init /\ [][NextRules]_vars

\* ───────────────────────────── SpecHistory: enabled and disabled rules with history ─────────────────────────────

HistoryRuleLists ==
    {<<SpendEth, Cooldown2>>, <<SpendEthDisabled, Cooldown2Disabled>>,
     <<SpendEth, Cooldown2Disabled>>, <<SpendEthDisabled, Cooldown2>>,
     <<DenyAllDisabled, MaxValueNoParamsDisabled>>, <<Cooldown2, DenyAllDisabled>>,
     <<MaxValueNoParamsDisabled, MaxOneEther>>}
HistoryValues == {HALF_ETHER, TWO_ETHER}

HistorySetPolicySet ==
    \E rs \in HistoryRuleLists : SetPolicySet(ALICE, MOCK_CID, 0, FALSE, "CLOSED", rs)

HistoryCheckPolicy ==
    \E value \in HistoryValues :
        CheckPolicy(ALICE, ALICE, UNISWAP, value, EmptyData, EmptyAttestation)

HistoryEvaluateDetailed ==
    \E value \in HistoryValues :
        EvaluateDetailed(BOB, ALICE, UNISWAP, value, EmptyData, EmptyAttestation)

HistoryRecordExecution ==
    \E sender \in Accounts : RecordExecution(sender, ALICE, UNISWAP, ONE_ETHER, EmptyData)

NextHistory ==
    \/ HistorySetPolicySet
    \/ RemovePolicySet(ALICE)
    \/ HistoryCheckPolicy
    \/ HistoryEvaluateDetailed
    \/ HistoryRecordExecution
    \/ Tick

SpecHistory == Init /\ [][NextHistory]_vars

\* ───────────────────────────── SpecSpend: spend limits over time ─────────────────────────────

AllowUniswapAave ==
    OnChainRule("ALLOW_TARGETS", encodeTargetListParams(<<UNISWAP, AAVE>>), TRUE)

SpendRuleLists == {<<SpendEth>>, <<AllowUniswapAave, SpendEth>>, <<SpendToken>>}

\* Native transfers of 0.5 and 1 ETH to UNISWAP, and ERC-20 transfers of the
\* same amounts of the token at AAVE.
SpendCalls ==
    {[target |-> UNISWAP, value |-> v, data |-> EmptyData] : v \in {HALF_ETHER, ONE_ETHER}}
    \cup {[target |-> AAVE, value |-> 0, data |-> TokenCall(TRANSFER_SELECTOR, BOB, v)] :
            v \in {HALF_ETHER, ONE_ETHER}}

SpendSetPolicySet ==
    \E rs \in SpendRuleLists : SetPolicySet(ALICE, MOCK_CID, 0, FALSE, "CLOSED", rs)

SpendCheckPolicy ==
    \E c \in SpendCalls :
        CheckPolicy(ALICE, ALICE, c.target, c.value, c.data, EmptyAttestation)

SpendRecordExecution ==
    \E c \in SpendCalls : RecordExecution(ALICE, ALICE, c.target, c.value, c.data)

NextSpend ==
    \/ SpendSetPolicySet
    \/ SpendCheckPolicy
    \/ SpendRecordExecution
    \/ Tick

SpecSpend == Init /\ [][NextSpend]_vars

\* ───────────────────────────── SpecCooldown: cooldowns over time ─────────────────────────────

CooldownRuleLists == {<<Cooldown2>>, <<AllowUniswap, Cooldown2>>, <<Cooldown2Disabled, Cooldown2>>}

CooldownSetPolicySet ==
    \E rs \in CooldownRuleLists : SetPolicySet(ALICE, MOCK_CID, 0, FALSE, "CLOSED", rs)

CooldownCheckPolicy ==
    \E value \in {0, HALF_ETHER} :
        CheckPolicy(ALICE, ALICE, UNISWAP, value, EmptyData, EmptyAttestation)

CooldownRecordExecution ==
    \E sender \in Accounts, value \in {0, HALF_ETHER} :
        RecordExecution(sender, ALICE, UNISWAP, value, EmptyData)

NextCooldown ==
    \/ CooldownSetPolicySet
    \/ CooldownCheckPolicy
    \/ CooldownRecordExecution
    \/ Tick

SpecCooldown == Init /\ [][NextCooldown]_vars

\* ───────────────────────────── SpecAttest: checks carrying an attestation ─────────────────────────────

AttestData == {EmptyData, SelectorCall(TRANSFER_SELECTOR)}

\* Approvals over two values of each field that is compared with the call,
\* expiring at the first timestamp or at the last.
AttestApprovals ==
    {PolicyApproval(caller, target, value, keccak256(data), expiry, policyCID, CHAIN_ID) :
        caller \in Accounts, target \in {UNISWAP, AAVE}, value \in {0, HALF_ETHER},
        data \in AttestData, expiry \in {1, MaxTime}, policyCID \in CIDs}

\* Signatures offered with an approval: the PKP's over this approval, another
\* key's over this approval, the PKP's over the approval for the other
\* target, and bytes that are no signature.
AttestSignatures(approval) ==
    {Signature(PKP, getPolicyApprovalDigest(approval)),
     Signature(MALICIOUS, getPolicyApprovalDigest(approval)),
     Signature(PKP, getPolicyApprovalDigest(
        [approval EXCEPT !.target = IF @ = UNISWAP THEN AAVE ELSE UNISWAP])),
     Signature(0, getPolicyApprovalDigest(approval))}

AttestAttestations ==
    {EncodedAttestation(approval, signature) :
        approval \in AttestApprovals,
        signature \in UNION {AttestSignatures(a) : a \in AttestApprovals}}

AttestSetPolicySet ==
    \E rs \in {<<>>, <<AllowUniswap>>} :
        SetPolicySet(ALICE, MOCK_CID, PKP, TRUE, "CLOSED", rs)

AttestCheckPolicy ==
    \E target \in {UNISWAP, AAVE}, approval \in AttestApprovals :
        \E signature \in AttestSignatures(approval) :
            CheckPolicy(BOB, ALICE, target, 0, EmptyData,
                        EncodedAttestation(approval, signature))

NextAttest ==
    \/ AttestSetPolicySet
    \/ AttestCheckPolicy
    \/ Tick

SpecAttest == Init /\ [][NextAttest]_vars

\* ───────────────────────────── SpecDetailed: the detailed evaluation ─────────────────────────────

\* An approval of a 0.5 ETH transfer from ALICE to UNISWAP under MOCK_CID.
DetailedApproval ==
    PolicyApproval(ALICE, UNISWAP, HALF_ETHER, keccak256(EmptyData), MaxTime, MOCK_CID, CHAIN_ID)

\* No attestation, the approval signed by the PKP, the approval signed by
\* another key.
DetailedAttestations ==
    {EmptyAttestation,
     EncodedAttestation(DetailedApproval,
                        Signature(PKP, getPolicyApprovalDigest(DetailedApproval))),
     EncodedAttestation(DetailedApproval,
                        Signature(MALICIOUS, getPolicyApprovalDigest(DetailedApproval)))}

DetailedSetPolicySet ==
    \E requireAttestation \in BOOLEAN, failMode \in FailModes, rs \in ReplaceRuleLists :
        SetPolicySet(ALICE, MOCK_CID, PKP, requireAttestation, failMode, rs)

DetailedEvaluateDetailed ==
    \E target \in StoreTargets, value \in ReplaceValues, attestation \in DetailedAttestations :
        EvaluateDetailed(BOB, ALICE, target, value, EmptyData, attestation)

NextDetailed ==
    \/ DetailedSetPolicySet
    \/ RemovePolicySet(ALICE)
    \/ DetailedEvaluateDetailed

SpecDetailed == Init /\ [][NextDetailed]_vars

\* ───────────────────────────── SpecReentry: evaluations taken call by call ─────────────────────────────

\* A transaction is sent only when no call is running.
ReentrySetPolicySet ==
    /\ stack = <<>>
    /\ \E rs \in SeqsUpTo({AllowUniswap, MaxOneEther, MaxZeroDisabled, MaxValueNoParams},
                          MaxRules) :
        SetPolicySet(ALICE, MOCK_CID, 0, FALSE, "CLOSED", rs)

ReentryEnterCheckPolicy ==
    \E sender \in Accounts, target \in StoreTargets, value \in ReplaceValues :
        EnterCheckPolicy(sender, ALICE, target, value, EmptyData, EmptyAttestation)

ReentryEnterEvaluateDetailed ==
    \E sender \in Accounts, target \in StoreTargets, value \in ReplaceValues :
        EnterEvaluateDetailed(sender, ALICE, target, value, EmptyData, EmptyAttestation)

NextReentry ==
    \/ ReentrySetPolicySet
    \/ ReentryEnterCheckPolicy
    \/ ReentryEnterEvaluateDetailed
    \/ SkipDisabledRule
    \/ CallEvaluator
    \/ ReturnFromEvaluator
    \/ ExitEvaluation

SpecReentry == Init /\ [][NextReentry]_vars

\* ───────────────────────────── SpecCodec: the parameter codec ─────────────────────────────

\* Parameter blobs: every sequence of at most MaxListLen + 3 words over
\* {0, 1, 2} (two addresses or selectors, small amounts).
CodecWords == 0..2
CodecBlobs == SeqsUpTo(CodecWords, MaxListLen + 3)

CodecKinds == {"TargetList", "SelectorList", "MaxValue", "SpendLimit", "Cooldown"}

\* The parameter values of each kind, as the decoder returns them.
CodecParams(kind) ==
    IF kind = "TargetList" THEN TargetLists
    ELSE IF kind = "SelectorList" THEN SelectorLists
    ELSE IF kind = "MaxValue" THEN {[maxValue |-> m] : m \in CodecWords}
    ELSE IF kind = "SpendLimit"
        THEN {[token |-> t, maxAmount |-> m, windowSeconds |-> w] :
                t \in {0, AAVE}, m \in CodecWords, w \in CodecWords}
    ELSE {[cooldownSeconds |-> c] : c \in CodecWords}

encodeParams(kind, x) ==
    IF kind = "TargetList" THEN encodeTargetListParams(x)
    ELSE IF kind = "SelectorList" THEN encodeSelectorListParams(x)
    ELSE IF kind = "MaxValue" THEN encodeMaxValueParams(x.maxValue)
    ELSE IF kind = "SpendLimit"
        THEN encodeSpendLimitParams(x.token, x.maxAmount, x.windowSeconds)
    ELSE encodeCooldownParams(x.cooldownSeconds)

decodeParams(kind, data) ==
    IF kind = "TargetList" THEN decodeTargetListParams(data)
    ELSE IF kind = "SelectorList" THEN decodeSelectorListParams(data)
    ELSE IF kind = "MaxValue" THEN decodeMaxValueParams(data)
    ELSE IF kind = "SpendLimit" THEN decodeSpendLimitParams(data)
    ELSE decodeCooldownParams(data)

\* The engine is deployed and some parameter blob is at hand.
InitCodec ==
    /\ _policies = [a \in Accounts |-> DefaultPolicy]
    /\ _rules = [a \in Accounts |-> [i \in Slots |-> DefaultRule]]
    /\ spendStates = [a \in Accounts |-> [i \in Slots |-> DefaultSpendState]]
    /\ lastExecutionTime = [a \in Accounts |-> [i \in Slots |-> 0]]
    /\ now = 1
    /\ _status = "NOT_ENTERED"
    /\ stack = <<>>
    /\ executionCount = 0
    /\ initialized = [a \in Accounts |-> FALSE]
    /\ \E data \in CodecBlobs : ret = [op |-> "blob", data |-> data]

\* decode(encode(x)) for a parameter value x of a kind.
CodecRoundTrip ==
    /\ \E kind \in CodecKinds :
        \E x \in CodecParams(kind) :
            ret' = [op |-> "roundTrip", kind |-> kind, x |-> x,
                    data |-> encodeParams(kind, x),
                    out |-> decodeParams(kind, encodeParams(kind, x))]
    /\ UNCHANGED <<_policies, _rules, spendStates, lastExecutionTime, now, _status, stack,
                   executionCount, initialized>>

\* decode of the blob at hand as a kind.
CodecDecode ==
    /\ ret.op = "blob"
    /\ \E kind \in CodecKinds :
        ret' = [op |-> "decode", kind |-> kind, data |-> ret.data,
                out |-> decodeParams(kind, ret.data)]
    /\ UNCHANGED <<_policies, _rules, spendStates, lastExecutionTime, now, _status, stack,
                   executionCount, initialized>>

NextCodec ==
    \/ CodecRoundTrip
    \/ CodecDecode

SpecCodec == InitCodec /\ [][NextCodec]_vars

\* ───────────────────────────── SpecGuard: a contract guarded by enforcePolicy ─────────────────────────────

GuardRuleLists == {<<MaxOneEther>>, <<Cooldown2>>, <<MaxOneEther, SpendEth>>}

GuardValues == {HALF_ETHER, TWO_ETHER}

\* Between transactions only: no guarded execution is under way.
GuardSetPolicySet ==
    /\ stack = <<>>
    /\ \E rs \in GuardRuleLists : SetPolicySet(ALICE, MOCK_CID, 0, FALSE, "CLOSED", rs)

GuardEnterGuardedExecute ==
    \E sender \in Accounts, value \in GuardValues :
        EnterGuardedExecute(sender, UNISWAP, value, EmptyData, EmptyAttestation)

GuardTick ==
    /\ stack = <<>>
    /\ Tick

NextGuard ==
    \/ GuardSetPolicySet
    \/ GuardEnterGuardedExecute
    \/ GuardedBody
    \/ GuardedRecord
    \/ GuardTick

SpecGuard == Init /\ [][NextGuard]_vars

\* ───────────────────────────── SpecModule: the ERC-7579 module ─────────────────────────────

\* abi.encode(bytes("sig"), bytes("")) of the module's tests, and every short
\* blob of small words (empty bytes among them).
ModuleSignatures == SeqsUpTo(CodecWords, MaxListLen + 1) \cup {encodeSignature(<<1>>, <<>>)}

ModuleSetPolicySet == SetPolicySet(ALICE, MOCK_CID, 0, FALSE, "CLOSED", <<>>)

ModuleOnInstall == \E sender \in Accounts : OnInstall(sender)

ModuleOnUninstall == \E sender \in Accounts : OnUninstall(sender)

ModuleValidateUserOp ==
    \E sender \in Accounts, signature \in ModuleSignatures :
        ValidateUserOp(sender, 0, signature)

NextModule ==
    \/ ModuleSetPolicySet
    \/ ModuleOnInstall
    \/ ModuleOnUninstall
    \/ ModuleValidateUserOp

SpecModule == Init /\ [][NextModule]_vars

\* ───────────────────────────── SpecShort: the first failing rule ─────────────────────────────

\* Two-rule policies whose rules fail for different reasons, with a rule
\* that is disabled or whose parameters do not decode in second place.
ShortRuleLists ==
    {<<AllowUniswap, MaxOneEther>>, <<MaxOneEther, AllowUniswap>>,
     <<MaxZeroDisabled, AllowUniswap>>, <<MaxOneEther, MaxValueNoParams>>,
     <<DenyAllDisabled, MaxOneEther>>}

\* A valid approval of a 2 ETH transfer from ALICE to AAVE under MOCK_CID.
ShortApproval ==
    PolicyApproval(ALICE, AAVE, TWO_ETHER, keccak256(EmptyData), MaxTime, MOCK_CID, CHAIN_ID)

ShortAttestations ==
    {EmptyAttestation, MalformedAttestation,
     EncodedAttestation(ShortApproval,
                        Signature(PKP, getPolicyApprovalDigest(ShortApproval)))}

ShortSetPolicySet ==
    \E requireAttestation \in BOOLEAN, failMode \in FailModes, rs \in ShortRuleLists :
        SetPolicySet(ALICE, MOCK_CID, PKP, requireAttestation, failMode, rs)

ShortCheckPolicy ==
    \E target \in {UNISWAP, AAVE}, value \in {HALF_ETHER, TWO_ETHER},
       attestation \in ShortAttestations :
        CheckPolicy(BOB, ALICE, target, value, EmptyData, attestation)

NextShort ==
    \/ ShortSetPolicySet
    \/ ShortCheckPolicy

SpecShort == Init /\ [][NextShort]_vars

\* ───────────────────────────── SpecVerify: attestation verification ─────────────────────────────

\* Approvals of one call that expire at each timestamp, for this chain and
\* for another one.
VerifyApprovals ==
    {PolicyApproval(ALICE, target, 0, keccak256(EmptyData), expiry, MOCK_CID, chainId) :
        target \in {UNISWAP, AAVE}, expiry \in 1..MaxTime, chainId \in {CHAIN_ID, CHAIN_ID + 1}}

VerifyVerifyAttestation ==
    \E approval \in VerifyApprovals, expectedSigner \in {PKP, MALICIOUS} :
        \E signature \in AttestSignatures(approval) :
            VerifyAttestation(approval, signature, expectedSigner)

NextVerify ==
    \/ VerifyVerifyAttestation
    \/ Tick

SpecVerify == Init /\ [][NextVerify]_vars

\* ───────────────────────────── SpecReasons: invalid attestations on both paths ─────────────────────────────

\* Approvals of a plain call from ALICE under MOCK_CID: for either target,
\* expiring at the first or the last timestamp, for this chain or another.
ReasonsApprovals ==
    {PolicyApproval(ALICE, target, 0, keccak256(EmptyData), expiry, MOCK_CID, chainId) :
        target \in {UNISWAP, AAVE}, expiry \in {1, MaxTime}, chainId \in {CHAIN_ID, CHAIN_ID + 1}}

\* Each approval signed by the PKP and by another key.
ReasonsAttestations ==
    {EncodedAttestation(approval, Signature(signer, getPolicyApprovalDigest(approval))) :
        approval \in ReasonsApprovals, signer \in {PKP, MALICIOUS}}

ReasonsSetPolicySet == SetPolicySet(ALICE, MOCK_CID, PKP, TRUE, "CLOSED", <<>>)

ReasonsCheckPolicy ==
    \E attestation \in ReasonsAttestations :
        CheckPolicy(BOB, ALICE, UNISWAP, 0, EmptyData, attestation)

ReasonsEvaluateDetailed ==
    \E attestation \in ReasonsAttestations :
        EvaluateDetailed(BOB, ALICE, UNISWAP, 0, EmptyData, attestation)

NextReasons ==
    \/ ReasonsSetPolicySet
    \/ ReasonsCheckPolicy
    \/ ReasonsEvaluateDetailed
    \/ Tick

SpecReasons == Init /\ [][NextReasons]_vars

\* ───────────────────────────── SpecRecord: guarded executions and direct recordings ─────────────────────────────

\* recordExecution sent to the engine directly, by either account, for ALICE.
DirectRecordExecution ==
    /\ stack = <<>>
    /\ \E sender \in Accounts, value \in GuardValues :
        RecordExecution(sender, ALICE, UNISWAP, value, EmptyData)

NextRecord ==
    \/ GuardSetPolicySet
    \/ GuardEnterGuardedExecute
    \/ GuardedBody
    \/ GuardedRecord
    \/ DirectRecordExecution
    \/ GuardTick

SpecRecord == Init /\ [][NextRecord]_vars

\* ───────────────────────────── SpecHook: overlapping executions through the hook ─────────────────────────────

\* ALICE's account installs the module and holds a 1 ETH per window spend
\* limit; its executions may overlap (a batch, or an execution that starts
\* another one): preCheck of one may come before postCheck of another.
HookSetPolicySet ==
    /\ stack = <<>>
    /\ SetPolicySet(ALICE, MOCK_CID, 0, FALSE, "CLOSED", <<SpendEth>>)

HookOnInstall == OnInstall(ALICE)

HookMsgData ==
    {ShortMsgData, SmallMsgData, MalformedMsgData}
    \cup {ExecuteMsgData(UNISWAP, value, EmptyData) : value \in {HALF_ETHER, ONE_ETHER, TWO_ETHER}}

HookPreCheck ==
    \E msgData \in HookMsgData : PreCheck(ALICE, BOB, 0, msgData, EmptyAttestation)

HookPostCheck == \E k \in 1..MaxExecutions : PostCheck(k)

NextHook ==
    \/ HookSetPolicySet
    \/ HookOnInstall
    \/ HookPreCheck
    \/ HookPostCheck
    \/ Tick

SpecHook == Init /\ [][NextHook]_vars

\* ───────────────────────────── SpecOpen: attestations under both fail modes ─────────────────────────────

\* ALICE requires an attestation by PKP under either fail mode, with no rule
\* or a 1 ETH cap; calls carry no attestation or one of ReasonsAttestations
\* (another target, expired from time 2 on, another chain, another signer).
OpenSetPolicySet ==
    \E failMode \in FailModes, rs \in {<<>>, <<MaxOneEther>>} :
        SetPolicySet(ALICE, MOCK_CID, PKP, TRUE, failMode, rs)

OpenCheckPolicy ==
    \E attestation \in ReasonsAttestations \cup {EmptyAttestation},
       value \in {0, TWO_ETHER} :
        CheckPolicy(BOB, ALICE, UNISWAP, value, EmptyData, attestation)

NextOpen ==
    \/ OpenSetPolicySet
    \/ OpenCheckPolicy
    \/ Tick

SpecOpen == Init /\ [][NextOpen]_vars

\* ───────────────────────────── SpecReplay: one attestation presented again and again ─────────────────────────────

\* The PKP's approval of a 0.5 ETH transfer from ALICE to UNISWAP, valid up
\* to time 2, and the same approval signed by another key.
ReplayApproval ==
    PolicyApproval(ALICE, UNISWAP, HALF_ETHER, keccak256(EmptyData), 2, MOCK_CID, CHAIN_ID)
ReplayAttestation ==
    EncodedAttestation(ReplayApproval, Signature(PKP, getPolicyApprovalDigest(ReplayApproval)))
ReplayAttestations ==
    {EmptyAttestation, ReplayAttestation,
     EncodedAttestation(ReplayApproval,
                        Signature(MALICIOUS, getPolicyApprovalDigest(ReplayApproval)))}

\* A cooldown of 1 second.
Cooldown1 == OnChainRule("COOLDOWN", encodeCooldownParams(1), TRUE)

\* ALICE always requires an attestation by PKP, fail mode CLOSED.
ReplaySetPolicySet ==
    /\ stack = <<>>
    /\ \E rs \in {<<>>, <<MaxOneEther>>, <<Cooldown1>>} :
        SetPolicySet(ALICE, MOCK_CID, PKP, TRUE, "CLOSED", rs)

ReplayCheckPolicy ==
    /\ stack = <<>>
    /\ \E value \in {HALF_ETHER, TWO_ETHER}, attestation \in ReplayAttestations :
        CheckPolicy(BOB, ALICE, UNISWAP, value, EmptyData, attestation)

\* Guarded executions by ALICE once her policy is stored.
ReplayEnterGuardedExecute ==
    /\ hasPolicy(ALICE)
    /\ \E attestation \in ReplayAttestations :
        EnterGuardedExecute(ALICE, UNISWAP, HALF_ETHER, EmptyData, attestation)

NextReplay ==
    \/ ReplaySetPolicySet
    \/ ReplayCheckPolicy
    \/ ReplayEnterGuardedExecute
    \/ GuardedBody
    \/ GuardedRecord
    \/ GuardTick

SpecReplay == Init /\ [][NextReplay]_vars

\* ───────────────────────────── SpecHookAttest: the hook and required attestations ─────────────────────────────

\* The PKP's approval of a 0.5 ETH transfer from ALICE to UNISWAP, and the
\* same approval signed by another key.
HookApproval ==
    PolicyApproval(ALICE, UNISWAP, HALF_ETHER, keccak256(EmptyData), MaxTime, MOCK_CID, CHAIN_ID)
HookCarried ==
    {EmptyAttestation,
     EncodedAttestation(HookApproval, Signature(PKP, getPolicyApprovalDigest(HookApproval))),
     EncodedAttestation(HookApproval,
                        Signature(MALICIOUS, getPolicyApprovalDigest(HookApproval)))}

\* ALICE requires an attestation by PKP, under either fail mode, with no rule
\* or a 1 ETH cap.
HookAttestSetPolicySet ==
    /\ stack = <<>>
    /\ \E failMode \in FailModes, rs \in {<<>>, <<MaxOneEther>>} :
        SetPolicySet(ALICE, MOCK_CID, PKP, TRUE, failMode, rs)

\* The hook is called for an execution of a user operation whose signature
\* carried `carried`.
HookAttestPreCheck ==
    \E msgData \in HookMsgData, carried \in HookCarried :
        PreCheck(ALICE, BOB, 0, msgData, carried)

\* Compound signatures: an owner signature and an attestation of 0 to 2 words.
HookSignatures == {encodeSignature(<<1>>, a) : a \in SeqsUpTo(CodecWords, 2)}

HookValidateUserOp ==
    \E signature \in HookSignatures : ValidateUserOp(ALICE, 0, signature)

NextHookAttest ==
    \/ HookAttestSetPolicySet
    \/ HookOnInstall
    \/ HookAttestPreCheck
    \/ HookPostCheck
    \/ HookValidateUserOp

SpecHookAttest == Init /\ [][NextHookAttest]_vars

\* ───────────────────────────── SpecLit: attestations from the Lit Action ─────────────────────────────

\* Longest CID string.
MaxCidLen == 3

LitCids == SeqsUpTo({1, 2}, MaxCidLen) \ {<<>>}

\* ALICE stores a policy pinned under `cid` as the SDK does: the CID as
\* cidToBytes32, the PKP as attester, attestation required.
LitSetPolicySet ==
    \E cid \in LitCids, failMode \in FailModes :
        SetPolicySet(ALICE, cidToBytes32(cid), PKP, TRUE, failMode, <<>>)

LitGo ==
    \E cid \in LitCids, value \in {0, HALF_ETHER}, expiry \in {1, MaxTime},
       offChainPassed \in BOOLEAN :
        Go(JsParams(cid, ALICE, UNISWAP, value, EmptyData, CHAIN_ID, expiry), offChainPassed)

LitSubmitApproved == SubmitApproved(BOB)

NextLit ==
    \/ LitSetPolicySet
    \/ LitGo
    \/ LitSubmitApproved
    \/ Tick

SpecLit == Init /\ [][NextLit]_vars

\* ───────────────────────────── SpecJson: policy serialization ─────────────────────────────

\* A sequence in its own and in reversed order.
Reversed(seq) == [i \in 1..Len(seq) |-> seq[Len(seq) + 1 - i]]
Orders(seq) == {seq, Reversed(seq)}

JsonOnChainRules ==
    UNION {Orders(<<Prop("type", JStr("MAX_VALUE")), Prop("maxValue", JStr("1"))>>),
           Orders(<<Prop("type", JStr("COOLDOWN")), Prop("cooldownSeconds", JNum(1))>>)}
JsonOffChainRules ==
    Orders(<<Prop("type", JStr("REQUIRE_SIMULATION")), Prop("mustSucceed", JBool(TRUE))>>)

\* Schema-valid policies: either fail mode, at most one on-chain and one
\* off-chain rule, the properties of every object in either order.
JsonPolicies ==
    UNION {UNION {UNION {
        {JObj(top) : top \in Orders(<<
            Prop("version", JStr("1.0.0")),
            Prop("id", JStr("test-policy")),
            Prop("createdAt", JStr("2024-01-01T00:00:00Z")),
            Prop("failMode", JStr(failMode)),
            Prop("rules", JObj(rules))>>)} :
        rules \in Orders(<<Prop("onChain", JArr(onChain)), Prop("offChain", JArr(offChain))>>)} :
        onChain \in {<<>>} \cup {<<JObj(r)>> : r \in JsonOnChainRules},
        offChain \in {<<>>} \cup {<<JObj(r)>> : r \in JsonOffChainRules}} :
        failMode \in FailModes}

InitJson ==
    /\ _policies = [a \in Accounts |-> DefaultPolicy]
    /\ _rules = [a \in Accounts |-> [i \in Slots |-> DefaultRule]]
    /\ spendStates = [a \in Accounts |-> [i \in Slots |-> DefaultSpendState]]
    /\ lastExecutionTime = [a \in Accounts |-> [i \in Slots |-> 0]]
    /\ now = 1
    /\ _status = "NOT_ENTERED"
    /\ stack = <<>>
    /\ executionCount = 0
    /\ initialized = [a \in Accounts |-> FALSE]
    /\ \E policy \in JsonPolicies : ret = [op |-> "policy", policy |-> policy]

JsonVerify == \E expected \in JsonPolicies : Verify(expected)

NextJson ==
    \/ SerializePolicy
    \/ DeserializePolicy
    \/ JsonVerify

SpecJson == InitJson /\ [][NextJson]_vars

\* ───────────────────────────── Properties ─────────────────────────────

Range(list) == {list[i] : i \in 1..Len(list)}

\* The rule passes for the call: its evaluator returns (true, _).
RulePasses(rule, caller, target, value, data) ==
    LET r == evaluateRule(rule, caller, target, value, data) IN ~r.reverted /\ r.passed

\* The last transaction was checkPolicy and it returned (did not revert).
Checked == ret.op = "checkPolicy" /\ ~ret.reverted

\* `rule` is stored for the account and is its only enabled rule.
OnlyEnabledRule(account, rule) ==
    /\ _policies[account].exists
    /\ \E i \in Slots :
        /\ i < _policies[account].ruleCount
        /\ _rules[account][i] = rule
        /\ rule.enabled
        /\ \A j \in Slots \ {i} :
            j < _policies[account].ruleCount => ~_rules[account][j].enabled

\* C1: for an account with no stored policy (never set, or removed),
\* checkPolicy returns true whatever the target, value, calldata and
\* attestation, and whatever policies other accounts hold.
C1_NoPolicyAllowsAll ==
    (ret.op = "checkPolicy" /\ ~hasPolicy(ret.account))
        => (~ret.reverted /\ ret.result = TRUE)

\* C1 witness: a check of a token call carrying value and a malformed
\* attestation, for an account that has no policy while the other account
\* holds one.
C1_Witness ==
    /\ ret.op = "checkPolicy"
    /\ ~hasPolicy(ret.account)
    /\ ret.attestation = MalformedAttestation
    /\ ret.value = TWO_ETHER
    /\ ret.data # EmptyData
    /\ ret.result = TRUE
    /\ \E other \in Accounts \ {ret.account} : hasPolicy(other)

\* C2: for a policy that does not require attestation, checkPolicy returns
\* true iff every enabled rule of the account's list passes for the call;
\* with [AllowTargets([UNISWAP]), MaxValue(1 ETH)] a call to UNISWAP with
\* 0.5 ETH is allowed, with 2 ETH it is denied with "ETH value exceeds
\* maximum", and a call to another target with 0.5 ETH is denied with
\* "Target address not in allowlist".
C2_AllEnabledRulesMustPass ==
    (ret.op = "checkPolicy" /\ hasPolicy(ret.account)
        /\ ~getPolicy(ret.account).requireAttestation)
    => /\ (~ret.reverted /\ ret.result)
            <=> \A i \in Slots :
                    (i < getPolicy(ret.account).ruleCount /\ getRule(ret.account, i).enabled)
                    => RulePasses(getRule(ret.account, i), ret.account,
                                  ret.target, ret.value, ret.data)
       /\ (getPolicy(ret.account).ruleCount = 2
            /\ getRule(ret.account, 0) = AllowUniswap
            /\ getRule(ret.account, 1) = MaxOneEther)
          => /\ ~ret.reverted
             /\ (ret.target = UNISWAP /\ ret.value = HALF_ETHER) => ret.result
             /\ (ret.target = UNISWAP /\ ret.value = TWO_ETHER)
                    => (~ret.result /\ ret.reason = "ETH value exceeds maximum")
             /\ (ret.target # UNISWAP /\ ret.value = HALF_ETHER)
                    => (~ret.result /\ ret.reason = "Target address not in allowlist")

\* C2 witness: under [AllowTargets([UNISWAP]), MaxValue(1 ETH)] a call to
\* UNISWAP with 2 ETH was denied by the second rule.
C2_Witness ==
    /\ Checked
    /\ getPolicy(ret.account).ruleCount = 2
    /\ getRule(ret.account, 0) = AllowUniswap
    /\ getRule(ret.account, 1) = MaxOneEther
    /\ ret.target = UNISWAP
    /\ ret.value = TWO_ETHER
    /\ ~ret.result

\* C3: with a policy whose only enabled rule is MaxValue(maxVal),
\* checkPolicy(value) = (value <= maxVal); value = maxVal passes.
C3_MaxValue ==
    \A maxVal \in 0..MaxUint :
        (ret.op = "checkPolicy"
            /\ OnlyEnabledRule(ret.account,
                    OnChainRule("MAX_VALUE", encodeMaxValueParams(maxVal), TRUE))
            /\ ~getPolicy(ret.account).requireAttestation)
        => (~ret.reverted /\ ret.result = (ret.value <= maxVal))

\* C3 witness: a check at the boundary value = maxVal > 0 that passed.
C3_Witness ==
    /\ Checked
    /\ ret.value > 0
    /\ OnlyEnabledRule(ret.account,
            OnChainRule("MAX_VALUE", encodeMaxValueParams(ret.value), TRUE))
    /\ ret.result

\* C4: AllowTargets(list) passes iff the target is a member of list; with
\* the empty list it fails for every target.
C4_AllowTargets ==
    \A list \in TargetLists :
        (ret.op = "checkPolicy"
            /\ OnlyEnabledRule(ret.account,
                    OnChainRule("ALLOW_TARGETS", encodeTargetListParams(list), TRUE))
            /\ ~getPolicy(ret.account).requireAttestation)
        => /\ ~ret.reverted
           /\ ret.result = (ret.target \in Range(list))
           /\ (list = <<>>) => ~ret.result

\* C4 witness: a target that is the second element of a two-element
\* allowlist was allowed.
C4_Witness ==
    /\ Checked
    /\ \E list \in TargetLists :
        /\ Len(list) = 2
        /\ list[1] # list[2]
        /\ list[2] = ret.target
        /\ OnlyEnabledRule(ret.account,
                OnChainRule("ALLOW_TARGETS", encodeTargetListParams(list), TRUE))
    /\ ret.result

\* C5: DenyTargets(list) passes iff the target is not a member of list; with
\* the empty list it passes for every target.
C5_DenyTargets ==
    \A list \in TargetLists :
        (ret.op = "checkPolicy"
            /\ OnlyEnabledRule(ret.account,
                    OnChainRule("DENY_TARGETS", encodeTargetListParams(list), TRUE))
            /\ ~getPolicy(ret.account).requireAttestation)
        => /\ ~ret.reverted
           /\ ret.result = (ret.target \notin Range(list))
           /\ (list = <<>>) => ret.result

\* C5 witness: a target that is the second element of a two-element
\* denylist was denied.
C5_Witness ==
    /\ Checked
    /\ \E list \in TargetLists :
        /\ Len(list) = 2
        /\ list[1] # list[2]
        /\ list[2] = ret.target
        /\ OnlyEnabledRule(ret.account,
                OnChainRule("DENY_TARGETS", encodeTargetListParams(list), TRUE))
    /\ ~ret.result
    /\ ret.reason = "Target address is in denylist"

\* C6: AllowSelectors and DenySelectors pass every call whose calldata is
\* shorter than 4 bytes, whatever the list; for calldata of 4 bytes or more
\* AllowSelectors passes iff the first 4 bytes are in the list and
\* DenySelectors passes iff they are not.
C6_Selectors ==
    \A list \in SelectorLists :
        /\ (ret.op = "checkPolicy"
                /\ OnlyEnabledRule(ret.account,
                        OnChainRule("ALLOW_SELECTORS", encodeSelectorListParams(list), TRUE))
                /\ ~getPolicy(ret.account).requireAttestation)
            => /\ ~ret.reverted
               /\ ret.data.length < 4 => ret.result
               /\ ret.data.length >= 4 => (ret.result = (ret.data.selector \in Range(list)))
        /\ (ret.op = "checkPolicy"
                /\ OnlyEnabledRule(ret.account,
                        OnChainRule("DENY_SELECTORS", encodeSelectorListParams(list), TRUE))
                /\ ~getPolicy(ret.account).requireAttestation)
            => /\ ~ret.reverted
               /\ ret.data.length < 4 => ret.result
               /\ ret.data.length >= 4 => (ret.result = (ret.data.selector \notin Range(list)))

\* C6 witness: a call with three bytes of calldata passed a DenySelectors rule
\* whose list is not empty.
C6_Witness ==
    /\ Checked
    /\ ret.data = ShortData
    /\ \E list \in SelectorLists :
        /\ list # <<>>
        /\ OnlyEnabledRule(ret.account,
                OnChainRule("DENY_SELECTORS", encodeSelectorListParams(list), TRUE))
    /\ ret.result

\* C7: after setPolicySet succeeds, also as the second call of an account,
\* getPolicy, getRule and checkPolicy reflect only that call: CID, attester,
\* requireAttestation, fail mode, rule count and rules are its arguments,
\* every slot beyond the new list is empty, and checkPolicy enforces exactly
\* the enabled rules of the new list.
C7_SecondCallReplaces ==
    (ret.op = "setPolicySet" /\ ~ret.reverted)
    => /\ getPolicy(ret.sender) =
            PolicySet(ret.policyCID, ret.pkpAddress, ret.requireAttestation,
                      ret.failMode, Len(ret.rules), TRUE)
       /\ \A i \in Slots :
            getRule(ret.sender, i) =
                IF i < Len(ret.rules) THEN ret.rules[i + 1] ELSE DefaultRule
       /\ ~ret.requireAttestation
          => \A target \in StoreTargets, value \in ReplaceValues :
                LET out == checkPolicy(ret.sender, target, value, EmptyData, EmptyAttestation)
                IN /\ ~out.reverted
                   /\ out.result <=>
                        \A k \in 1..Len(ret.rules) :
                            ret.rules[k].enabled
                            => RulePasses(ret.rules[k], ret.sender, target, value, EmptyData)

\* C7 witness: a second setPolicySet with a shorter, empty rule list replaced
\* a two-rule policy.
C7_Witness ==
    /\ ret.op = "setPolicySet"
    /\ ~ret.reverted
    /\ ret.hadPolicy
    /\ ret.oldRuleCount = 2
    /\ ret.rules = <<>>
    /\ ret.policyCID = NEW_CID

\* C8: every stored policy with requireAttestation = true has a non-zero
\* attester; setPolicySet with requireAttestation = true and a zero attester
\* reverts with InvalidPKPAddress and leaves the policy and the rules of the
\* account (and of every account) unchanged.
C8_AttesterRequired ==
    /\ [](\A a \in Accounts :
            getPolicy(a).requireAttestation => getPolicy(a).pkpAddress # 0)
    /\ [][(ret'.op = "setPolicySet" /\ ret'.requireAttestation /\ ret'.pkpAddress = 0)
            => /\ ret'.reverted
               /\ ret'.error = "InvalidPKPAddress"
               /\ _policies' = _policies
               /\ _rules' = _rules]_vars

\* C8 witness: a rejected setPolicySet by an account that holds a policy
\* with rules.
C8_Witness ==
    /\ ret.op = "setPolicySet"
    /\ ret.reverted
    /\ ret.error = "InvalidPKPAddress"
    /\ hasPolicy(ret.sender)
    /\ getPolicy(ret.sender).ruleCount > 0

\* C9: for a policy with requireAttestation = true whose enabled rules all
\* pass, checkPolicy with an empty attestation returns false under CLOSED
\* and true under OPEN.
C9_FailMode ==
    (ret.op = "checkPolicy" /\ hasPolicy(ret.account)
        /\ getPolicy(ret.account).requireAttestation
        /\ ret.attestation.length = 0
        /\ \A i \in Slots :
            (i < getPolicy(ret.account).ruleCount /\ getRule(ret.account, i).enabled)
            => RulePasses(getRule(ret.account, i), ret.account,
                          ret.target, ret.value, ret.data))
    => /\ ~ret.reverted
       /\ getPolicy(ret.account).failMode = "CLOSED" => ~ret.result
       /\ getPolicy(ret.account).failMode = "OPEN" => ret.result

\* C9 witness: fail mode OPEN, an enabled rule that passes, no attestation:
\* allowed.
C9_Witness ==
    /\ Checked
    /\ getPolicy(ret.account).requireAttestation
    /\ getPolicy(ret.account).failMode = "OPEN"
    /\ ret.attestation.length = 0
    /\ getPolicy(ret.account).ruleCount > 0
    /\ getRule(ret.account, 0).enabled
    /\ ret.result

\* C10: the policy and the rules of an account change only in a successful
\* setPolicySet or removePolicySet sent by that account; such a call changes
\* no other account's policy or rules.
C10_OnlyOwnerMutates ==
    [][\A a \in Accounts :
        (_policies'[a] # _policies[a] \/ _rules'[a] # _rules[a])
        => /\ ret'.op \in {"setPolicySet", "removePolicySet"}
           /\ ret'.sender = a
           /\ ~ret'.reverted]_vars

\* C10 witness: ALICE removed her policy and BOB's two-rule policy is still
\* stored.
C10_Witness ==
    /\ ret.op = "removePolicySet"
    /\ ~ret.reverted
    /\ ret.sender = ALICE
    /\ hasPolicy(BOB)
    /\ getPolicy(BOB).ruleCount = 2
    /\ getRule(BOB, 1) = AllowUniswap

\* C11: after a successful removePolicySet by an account, hasPolicy is false,
\* getPolicy is the all-default policy, every rule slot is empty and
\* checkPolicy allows every call for the account; removePolicySet by an
\* account that has no policy reverts with NoPolicySet and changes no state.
C11_RemovePolicySet ==
    /\ []((ret.op = "removePolicySet" /\ ~ret.reverted)
            => /\ ~hasPolicy(ret.sender)
               /\ getPolicy(ret.sender) = DefaultPolicy
               /\ \A i \in Slots : getRule(ret.sender, i) = DefaultRule
               /\ \A target \in Targets, value \in Values,
                     data \in StoreData \cup {ShortData},
                     attestation \in StoreAttestations :
                    checkPolicy(ret.sender, target, value, data, attestation) = Allowed)
    /\ [][ret'.op = "removePolicySet"
            => IF hasPolicy(ret'.sender)
               THEN ~ret'.reverted
               ELSE /\ ret'.reverted
                    /\ ret'.error = "NoPolicySet"
                    /\ store' = store
                    /\ now' = now]_vars

\* C11 witness: BOB removed a policy and, once it was gone, a second
\* removePolicySet by BOB was rejected with NoPolicySet.
C11_Witness ==
    /\ ret.op = "removePolicySet"
    /\ ret.sender = BOB
    /\ ret.reverted
    /\ ret.error = "NoPolicySet"
    /\ ~hasPolicy(BOB)
    /\ hasPolicy(ALICE)

\* The enabled rules of the account's list all pass for the call.
EnabledRulesPass(account, target, value, data) ==
    \A i \in Slots :
        (i < getPolicy(account).ruleCount /\ getRule(account, i).enabled)
        => RulePasses(getRule(account, i), account, target, value, data)

\* The reasons with which the enabled rules of the account's list fail the call.
EnabledFailReasons(account, target, value, data) ==
    {evaluateRule(getRule(account, i), account, target, value, data).reason :
        i \in {j \in Slots : /\ j < getPolicy(account).ruleCount
                             /\ getRule(account, j).enabled
                             /\ ~RulePasses(getRule(account, j), account, target, value, data)}}

\* C12: a disabled rule is skipped whatever its type and parameters:
\* checkPolicy and evaluateDetailed do not revert on it, allow when every
\* enabled rule passes and deny only with the reason of an enabled rule,
\* evaluateDetailed reports no entry for it, and recordExecution leaves the
\* spend state and the execution time of its position unchanged.
C12_DisabledRulesSkipped ==
    /\ []((ret.op = "checkPolicy" /\ hasPolicy(ret.account)
                /\ ~getPolicy(ret.account).requireAttestation)
            => /\ ~ret.reverted
               /\ ret.result = EnabledRulesPass(ret.account, ret.target, ret.value, ret.data)
               /\ ~ret.result =>
                    ret.reason \in EnabledFailReasons(ret.account, ret.target,
                                                      ret.value, ret.data))
    /\ []((ret.op = "evaluateDetailed" /\ hasPolicy(ret.account)
                /\ ~getPolicy(ret.account).requireAttestation)
            => /\ ~ret.reverted
               /\ ret.passed = EnabledRulesPass(ret.account, ret.target, ret.value, ret.data)
               /\ Len(ret.ruleResults) =
                    Cardinality({i \in Slots : /\ i < getPolicy(ret.account).ruleCount
                                               /\ getRule(ret.account, i).enabled})
               /\ \A k \in 1..Len(ret.reasons) :
                    ~ret.ruleResults[k] =>
                        ret.reasons[k] \in EnabledFailReasons(ret.account, ret.target,
                                                              ret.value, ret.data))
    /\ [][ret'.op = "recordExecution"
            => \A i \in Slots :
                ~getRule(ret'.account, i).enabled
                => /\ spendStates'[ret'.account][i] = spendStates[ret'.account][i]
                   /\ lastExecutionTime'[ret'.account][i] =
                        lastExecutionTime[ret'.account][i]]_vars

\* C12 witness: a policy whose two rules are a disabled empty allowlist and a
\* disabled rule with undecodable parameters allowed a call.
C12_Witness ==
    /\ Checked
    /\ getPolicy(ret.account).ruleCount = 2
    /\ getRule(ret.account, 0) = DenyAllDisabled
    /\ getRule(ret.account, 1) = MaxValueNoParamsDisabled
    /\ ret.result

\* The spend recorded for position i of the account in the window that is
\* open now: what recordExecution accumulated since the window start, or 0
\* once windowSeconds have elapsed since the window start.
SpentInWindow(account, i, windowSeconds) ==
    LET state == spendStates[account][i] IN
    IF now >= state.windowStart + windowSeconds THEN 0 ELSE state.spent

\* C13: for an enabled SpendLimit(M, W) rule at any position, with the
\* recorded spend of the open window S <= M and every other enabled rule
\* passing, checkPolicy for a spend a > 0 returns true iff S + a <= M (after
\* W seconds S counts as 0, so a single spend up to M passes).
C13_SpendLimit ==
    \A i \in Slots :
        LET rule == getRule(ret.account, i)
            p == decodeSpendLimitParams(rule.params).value
            a == extractSpendAmount(p.token, ret.target, ret.value, ret.data)
            S == SpentInWindow(ret.account, i, p.windowSeconds)
        IN
        (/\ ret.op = "checkPolicy"
         /\ hasPolicy(ret.account)
         /\ i < getPolicy(ret.account).ruleCount
         /\ rule.enabled
         /\ rule.ruleType = "SPEND_LIMIT"
         /\ \A j \in Slots \ {i} :
                (j < getPolicy(ret.account).ruleCount /\ getRule(ret.account, j).enabled)
                => RulePasses(getRule(ret.account, j), ret.account,
                              ret.target, ret.value, ret.data)
         /\ a > 0
         /\ S <= p.maxAmount)
        => (~ret.reverted /\ ret.result = (S + a <= p.maxAmount))

\* C14: for an enabled Cooldown(C) rule at any position whose last recorded
\* execution was at time t, with every other enabled rule passing,
\* checkPolicy is denied at every time before t + C (also at t itself) and
\* returns true at every time from t + C on.
C14_Cooldown ==
    \A i \in Slots :
        LET rule == getRule(ret.account, i)
            C == decodeCooldownParams(rule.params).value.cooldownSeconds
            t == lastExecutionTime[ret.account][i]
        IN
        (/\ ret.op = "checkPolicy"
         /\ hasPolicy(ret.account)
         /\ i < getPolicy(ret.account).ruleCount
         /\ rule.enabled
         /\ rule.ruleType = "COOLDOWN"
         /\ \A j \in Slots \ {i} :
                (j < getPolicy(ret.account).ruleCount /\ getRule(ret.account, j).enabled)
                => RulePasses(getRule(ret.account, j), ret.account,
                              ret.target, ret.value, ret.data)
         /\ t > 0)
        => (~ret.reverted /\ ret.result = (now >= t + C))

\* The reasons that name a field of the approval differing from the call
\* or from the stored policy.
MismatchReasons(approval, account, target, value, data, policyCID) ==
    (IF approval.caller # account THEN {"Attestation caller mismatch"} ELSE {})
    \cup (IF approval.target # target THEN {"Attestation target mismatch"} ELSE {})
    \cup (IF approval.value # value THEN {"Attestation value mismatch"} ELSE {})
    \cup (IF approval.calldataHash # keccak256(data)
          THEN {"Attestation calldata mismatch"} ELSE {})
    \cup (IF approval.policyCID # policyCID
          THEN {"Attestation policy CID mismatch"} ELSE {})

\* C15: when the policy requires attestation, the enabled rules pass and a
\* decodable non-empty attestation is supplied, checkPolicy returns true only
\* if the approval's caller, target, value, calldata hash and policy CID equal
\* those of the call and of the stored policy; if any of them differs the
\* call is denied, whatever the signature (valid, by another key, or bytes
\* that are no signature) and whatever the expiry, with a reason naming a
\* differing field.
C15_ApprovalBoundToCall ==
    (/\ ret.op = "checkPolicy"
     /\ hasPolicy(ret.account)
     /\ getPolicy(ret.account).requireAttestation
     /\ ret.attestation.length > 0
     /\ ret.attestation.wellFormed
     /\ EnabledRulesPass(ret.account, ret.target, ret.value, ret.data))
    => LET mismatch == MismatchReasons(ret.attestation.approval, ret.account, ret.target,
                                       ret.value, ret.data,
                                       getPolicy(ret.account).policyCID)
       IN /\ (~ret.reverted /\ ret.result) => mismatch = {}
          /\ mismatch # {} => /\ ~ret.reverted
                              /\ ~ret.result
                              /\ ret.reason \in mismatch

\* C15 witness: an approval for AAVE carrying the PKP's valid signature and
\* matching the call in every other field was denied for a call to UNISWAP
\* with the reason naming the target.
C15_Witness ==
    /\ Checked
    /\ hasPolicy(ret.account)
    /\ getPolicy(ret.account).requireAttestation
    /\ ret.attestation.length > 0
    /\ ret.target = UNISWAP
    /\ ret.attestation.approval.target = AAVE
    /\ MismatchReasons(ret.attestation.approval, ret.account, ret.target, ret.value,
                       ret.data, getPolicy(ret.account).policyCID)
            = {"Attestation target mismatch"}
    /\ verifyAttestation(ret.attestation.approval, ret.attestation.signature,
                         getPolicy(ret.account).pkpAddress) = Decoded(TRUE)
    /\ ~ret.result
    /\ ret.reason = "Attestation target mismatch"

\* The positions of the account's enabled rules, in list order.
EnabledPositions(account) ==
    SelectSeq([k \in 1..getPolicy(account).ruleCount |-> k - 1],
              LAMBDA i : getRule(account, i).enabled)

\* C16: evaluateDetailed for an account with no policy returns (true, [], []);
\* for an account with a policy it returns one result and one reason per
\* enabled rule, in list order, whether or not an earlier rule failed (the
\* result is the rule's own verdict, the reason is empty for a passing rule
\* and the rule's reason otherwise), followed by exactly one attestation
\* entry iff the policy requires attestation; passed is the conjunction of
\* all returned results.
C16_EvaluateDetailed ==
    ret.op = "evaluateDetailed"
    => /\ ~ret.reverted
       /\ ~hasPolicy(ret.account)
            => (ret.passed /\ ret.ruleResults = <<>> /\ ret.reasons = <<>>)
       /\ hasPolicy(ret.account)
            => LET enabled == EnabledPositions(ret.account)
                   n == Len(enabled)
                   total == IF getPolicy(ret.account).requireAttestation THEN n + 1 ELSE n
               IN /\ Len(ret.ruleResults) = total
                  /\ Len(ret.reasons) = total
                  /\ \A k \in 1..n :
                        LET r == evaluateRule(getRule(ret.account, enabled[k]), ret.account,
                                              ret.target, ret.value, ret.data)
                        IN /\ ret.ruleResults[k] = r.passed
                           /\ ret.reasons[k] = IF r.passed THEN "" ELSE r.reason
                  /\ ret.passed = (\A k \in 1..total : ret.ruleResults[k])

\* C16 witness: two enabled rules that both fail and a required attestation
\* that is missing: three entries, all false, each with its own reason.
C16_Witness ==
    /\ ret.op = "evaluateDetailed"
    /\ ~ret.reverted
    /\ getPolicy(ret.account).requireAttestation
    /\ ret.ruleResults = <<FALSE, FALSE, FALSE>>
    /\ ret.reasons = <<"Target address not in allowlist", "ETH value exceeds maximum",
                       "Attestation required but not provided">>
    /\ ~ret.passed

Undecodable(rule) ==
    IF rule.ruleType \in {"ALLOW_TARGETS", "DENY_TARGETS"}
        THEN decodeTargetListParams(rule.params).reverted
    ELSE IF rule.ruleType \in {"ALLOW_SELECTORS", "DENY_SELECTORS"}
        THEN decodeSelectorListParams(rule.params).reverted
    ELSE IF rule.ruleType = "MAX_VALUE" THEN decodeMaxValueParams(rule.params).reverted
    ELSE IF rule.ruleType = "SPEND_LIMIT" THEN decodeSpendLimitParams(rule.params).reverted
    ELSE IF rule.ruleType = "COOLDOWN" THEN decodeCooldownParams(rule.params).reverted
    ELSE TRUE

\* C18: when the rule loop of checkPolicy reaches an enabled rule whose type
\* is unknown or whose stored parameters cannot be decoded for its type (every
\* enabled rule before it passes), checkPolicy returns false with the reason
\* "unknown rule type": it does not revert and it does not return true.
C18_MalformedRuleDenied ==
    \A i \in Slots :
        (/\ ret.op = "checkPolicy"
         /\ hasPolicy(ret.account)
         /\ i < getPolicy(ret.account).ruleCount
         /\ getRule(ret.account, i).enabled
         /\ Undecodable(getRule(ret.account, i))
         /\ \A j \in Slots :
                (j < i /\ getRule(ret.account, j).enabled)
                => RulePasses(getRule(ret.account, j), ret.account,
                              ret.target, ret.value, ret.data))
        => /\ ~ret.reverted
           /\ ~ret.result
           /\ ret.reason \in {"unknown rule type", "Unknown rule type"}

ValidEncodings(kind) == {encodeParams(kind, x) : x \in CodecParams(kind)}

\* C20: for every rule kind, decode(encode(x)) = x for every parameter value
\* x (empty lists and zero amounts included), and decoding bytes that are not
\* the encoding of any parameter value of the kind is an error.
C20_CodecRoundTrip ==
    /\ ret.op = "roundTrip" => (~ret.out.reverted /\ ret.out.value = ret.x)
    /\ (ret.op = "decode" /\ ret.data \notin ValidEncodings(ret.kind)) => ret.out.reverted

\* ───────────────────────────── C21 ─────────────────────────────

\* The top frame of a guarded execution under way.
GuardTop == stack[Len(stack)]

\* The transaction ended: a failed guardedExecute that never got past the
\* check fails with PolicyDenied exactly when checkPolicy answered false, and
\* it has run no body and recorded nothing.
GuardFailedAtCheck ==
    (stack = <<>> /\ ret'.op = "guardedExecute") =>
        LET out == checkPolicy(ret'.sender, ret'.target, ret'.value, ret'.data,
                               ret'.attestation)
        IN /\ ret'.reverted
           /\ (~out.reverted /\ ~out.result) <=> ret'.error = "PolicyDenied"
           /\ stack' = <<>>
           /\ UNCHANGED <<store, executionCount>>

\* The body runs once, directly after a check that allowed the call, and
\* before anything is recorded.
GuardBodyAfterCheck ==
    executionCount' > executionCount =>
        /\ stack # <<>>
        /\ GuardTop.calls = <<EngineCall("checkPolicy", GuardTop.sender, GuardTop.target,
                                         GuardTop.value, GuardTop.data)>>
        /\ checkPolicy(GuardTop.sender, GuardTop.target, GuardTop.value,
                       GuardTop.data, GuardTop.attestation).result
        /\ executionCount' = executionCount + 1
        /\ UNCHANGED store

\* The history is written after the body, by recordExecution with the
\* arguments of the check, and that ends the transaction.
GuardRecordAfterBody ==
    <<spendStates, lastExecutionTime>>' # <<spendStates, lastExecutionTime>> =>
        /\ stack # <<>>
        /\ Len(GuardTop.calls) = 2
        /\ GuardTop.calls[2] = BodyCall
        /\ executionCount = GuardTop.saved + 1
        /\ LET r == RecordRules(GuardTop.sender, 0, spendStates, lastExecutionTime,
                                GuardTop.target, GuardTop.value, GuardTop.data)
           IN /\ spendStates' = r.spendStates
              /\ lastExecutionTime' = r.lastExecutionTime
        /\ stack' = <<>>
        /\ ~ret'.reverted
        /\ UNCHANGED executionCount

\* The calls of a finished guardedExecute: the check alone when it was
\* denied; check, body, record, with the same arguments, when it succeeded.
GuardCallsInOrder ==
    ret.op = "guardedExecute" =>
        LET check == EngineCall("checkPolicy", ret.sender, ret.target, ret.value, ret.data)
            record == EngineCall("recordExecution", ret.sender, ret.target, ret.value,
                                 ret.data)
        IN /\ ret.error = "PolicyDenied" => (ret.reverted /\ ret.calls = <<check>>)
           /\ ~ret.reverted => ret.calls = <<check, BodyCall, record>>

\* C21: in a guarded execution the order is check, body, record. When
\* checkPolicy answers false the call fails with PolicyDenied, the body has
\* not run and nothing is recorded; the body runs only after a check that
\* allowed the call; the stateful history is written only after the body, by
\* one recordExecution with the (account, target, value, data) that was
\* checked, which ends the transaction.
C21_CheckBodyRecord ==
    /\ []GuardCallsInOrder
    /\ [][GuardFailedAtCheck /\ GuardBodyAfterCheck /\ GuardRecordAfterBody]_vars

\* A guarded execution of ALICE has been checked, carried out and recorded
\* under a cooldown policy, and a second one inside the cooldown was denied.
C21_Witness ==
    /\ ret.op = "guardedExecute"
    /\ ret.sender = ALICE
    /\ ret.error = "PolicyDenied"
    /\ executionCount = 1
    /\ lastExecutionTime[ALICE][0] > 0

\* ───────────────────────────── C22 ─────────────────────────────

\* The flag of every account follows its own successful lifecycle calls.
ModuleFlagFollowsCalls ==
    \A a \in Accounts :
        initialized'[a] =
            IF ret'.op = "onInstall" /\ ret'.sender = a /\ ~ret'.reverted THEN TRUE
            ELSE IF ret'.op = "onUninstall" /\ ret'.sender = a /\ ~ret'.reverted THEN FALSE
            ELSE initialized[a]

\* onInstall fails exactly for an initialized caller, onUninstall exactly for
\* one that is not, with their errors and without a change of state.
ModuleLifecycleErrors ==
    /\ ret'.op = "onInstall" =>
        /\ ret'.reverted <=> isInitialized(ret'.sender)
        /\ ret'.reverted => (ret'.error = "AlreadyInitialized" /\ UNCHANGED initialized)
    /\ ret'.op = "onUninstall" =>
        /\ ret'.reverted <=> ~isInitialized(ret'.sender)
        /\ ret'.reverted => (ret'.error = "NotInitialized" /\ UNCHANGED initialized)

\* validateUserOp returns 1 to a caller that is not initialized and 0 to
\* every other caller.
ModuleValidation ==
    ret'.op = "validateUserOp" =>
        /\ ~ret'.reverted
        /\ ret'.validationData = IF isInitialized(ret'.sender) THEN 0 ELSE 1
        /\ UNCHANGED initialized

\* C22: after any sequence of onInstall/onUninstall calls isInitialized(A)
\* is true iff A's last successful call was onInstall; a repeated onInstall
\* fails with AlreadyInitialized and an onUninstall without installation
\* with NotInitialized, both without changing state; no account's call
\* changes another account's flag; validateUserOp returns 1 for a caller
\* that is not initialized and 0 otherwise.
C22_ModuleLifecycle ==
    [][ModuleFlagFollowsCalls /\ ModuleLifecycleErrors /\ ModuleValidation]_vars

\* The part of C22 about onInstall, onUninstall and isInitialized alone.
C22_LifecycleOnly == [][ModuleFlagFollowsCalls /\ ModuleLifecycleErrors]_vars

\* ───────────────────────────── C23 ─────────────────────────────

\* The positions of the account's enabled rules that do not pass the call
\* (they fail, or their evaluation reverts).
NotPassing(account, target, value, data) ==
    {i \in Slots : /\ i < _policies[account].ruleCount
                   /\ _rules[account][i].enabled
                   /\ ~RulePasses(_rules[account][i], account, target, value, data)}

Lowest(S) == CHOOSE i \in S : \A j \in S : i <= j

\* C23: checkPolicy stops at the first enabled rule that fails. When the
\* lowest-positioned enabled rule that does not pass fails (returns false),
\* the call is denied with that rule's reason: no later rule is evaluated
\* (one that would revert does not), and neither is the attestation phase,
\* whatever attestation is supplied and whatever the fail mode.
C23_FirstFailingRule ==
    (ret.op = "checkPolicy" /\ hasPolicy(ret.account)
     /\ NotPassing(ret.account, ret.target, ret.value, ret.data) # {}) =>
        LET first == Lowest(NotPassing(ret.account, ret.target, ret.value, ret.data))
            r == evaluateRule(_rules[ret.account][first], ret.account, ret.target,
                              ret.value, ret.data)
        IN ~r.reverted =>
            /\ ~ret.reverted
            /\ ret.result = FALSE
            /\ ret.reason = r.reason

\* Both rules of the policy fail the call, for different reasons, the second
\* rule in the list being the allowlist; the policy requires an attestation
\* and fails open, and the attestation supplied does not decode.
C23_Witness ==
    /\ Checked
    /\ ret.account = ALICE
    /\ _policies[ALICE].requireAttestation
    /\ _policies[ALICE].failMode = "OPEN"
    /\ ret.attestation = MalformedAttestation
    /\ NotPassing(ALICE, ret.target, ret.value, ret.data) = {0, 1}
    /\ _rules[ALICE][1] = AllowUniswap
    /\ ret.reason = "ETH value exceeds maximum"

\* ───────────────────────────── C24 ─────────────────────────────

\* C24: evaluateDetailed runs the same logic as checkPolicy: in every stored
\* state, at every time and for every (account, target, value, data,
\* attestation), the passed flag that evaluateDetailed returns equals the
\* boolean that checkPolicy returns, a non-empty attestation included.
C24_DetailedAgreesWithCheck ==
    (ret.op = "evaluateDetailed" /\ ~ret.reverted) =>
        LET out == checkPolicy(ret.account, ret.target, ret.value, ret.data,
                               ret.attestation)
        IN ~out.reverted => ret.passed = out.result

\* ───────────────────────────── C25 ─────────────────────────────

\* C25: attestation verification returns true iff now <= expiry (the
\* approval is still valid at now = expiry), the approval's chainId is the
\* current chain, and the signature was made by exactly the expected signer
\* over the digest of this approval; expiry and chain are checked before the
\* signature, so an expired or wrong-chain approval is rejected (false, no
\* revert) whatever the signature bytes are.
C25_VerifyAttestation ==
    ret.op = "verifyAttestation" =>
        /\ (~ret.reverted /\ ret.valid) <=>
              /\ now <= ret.approval.expiry
              /\ ret.approval.chainId = CHAIN_ID
              /\ ret.signature.signer = ret.expectedSigner
              /\ ret.signature.digest = getPolicyApprovalDigest(ret.approval)
        /\ (now > ret.approval.expiry \/ ret.approval.chainId # CHAIN_ID) =>
              (~ret.reverted /\ ~ret.valid)

\* An approval is verified as valid at the very timestamp of its expiry,
\* after time has passed.
C25_Witness ==
    /\ ret.op = "verifyAttestation"
    /\ ret.valid
    /\ now = ret.approval.expiry
    /\ now > 1

\* ───────────────────────────── C26 ─────────────────────────────

\* Why the attestation of a call record `r` (of checkPolicy or
\* evaluateDetailed) is invalid for the account's policy at this time.
InvalidityCauses(r) ==
    LET approval == r.attestation.approval
        signature == r.attestation.signature
        policy == _policies[r.account]
    IN (IF now > approval.expiry THEN {"expired"} ELSE {})
       \cup (IF approval.chainId # CHAIN_ID THEN {"chain"} ELSE {})
       \cup (IF MismatchReasons(approval, r.account, r.target, r.value, r.data,
                                policy.policyCID) # {}
             THEN {"mismatch"} ELSE {})
       \cup (IF signature.signer # policy.pkpAddress
                \/ signature.digest # getPolicyApprovalDigest(approval)
             THEN {"signature"} ELSE {})

\* The record is of a call of `op` that returned, for an account whose
\* policy requires an attestation, with an attestation that is invalid.
InvalidAttestationCall(r, op) ==
    /\ r.op = op
    /\ ~r.reverted
    /\ _policies[r.account].exists
    /\ _policies[r.account].requireAttestation
    /\ r.attestation.length > 0
    /\ InvalidityCauses(r) # {}

\* C26: every way an attestation can be invalid (expired, wrong chain, a
\* field that does not match the call, bad signature) gives one and the same
\* denial reason in checkPolicy, while evaluateDetailed reports reasons
\* that tell these causes apart: two checks in a row denied for an invalid
\* attestation carry the same reason, and two detailed evaluations in a row
\* whose attestations are invalid for different causes carry different
\* reasons.
C26_InvalidAttestationReasons ==
    [][/\ (InvalidAttestationCall(ret, "checkPolicy")
           /\ InvalidAttestationCall(ret', "checkPolicy")) =>
              /\ ret.result = FALSE
              /\ ret'.result = FALSE
              /\ ret'.reason = ret.reason
       /\ (InvalidAttestationCall(ret, "evaluateDetailed")
           /\ InvalidAttestationCall(ret', "evaluateDetailed")
           /\ InvalidityCauses(ret) \cap InvalidityCauses(ret') = {}) =>
              ret'.reasons # ret.reasons]_vars

\* ───────────────────────────── C27 ─────────────────────────────

\* The account's enabled rule of type `ruleType` at position i.
EnabledRuleAt(account, i, ruleType) ==
    /\ hasPolicy(account)
    /\ i < getPolicy(account).ruleCount
    /\ getRule(account, i).enabled
    /\ getRule(account, i).ruleType = ruleType

\* The rule now at position i passes the call of the last transaction.
RecordedCallPasses(i) ==
    RulePasses(getRule(ret.account, i), ret.account, ret.target, ret.value, ret.data)

\* What recordExecution wrote for position i is what the rule at position i
\* reads: right after an execution is recorded, the cooldown at position i
\* (of a positive length) does not pass, and a spend limit at position i
\* passes the same spend again only if it fits on top of spendStates[A][i].
RecordSeenByEvaluate ==
    (ret'.op = "recordExecution" /\ ~ret'.reverted) =>
        \A i \in Slots :
            LET A == ret'.account
                rule == getRule(A, i)
                passes == RecordedCallPasses(i)'
            IN
            /\ (/\ EnabledRuleAt(A, i, "COOLDOWN")
                /\ decodeCooldownParams(rule.params).value.cooldownSeconds > 0) =>
                    (lastExecutionTime'[A][i] = now /\ ~passes)
            /\ EnabledRuleAt(A, i, "SPEND_LIMIT") =>
                    LET p == decodeSpendLimitParams(rule.params).value
                        a == extractSpendAmount(p.token, ret'.target, ret'.value, ret'.data)
                    IN (a > 0 /\ p.windowSeconds > 0) =>
                            (passes <=> spendStates'[A][i].spent + a <= p.maxAmount)

\* A step that leaves the time, the rule at position i and the history of
\* (A, i) as they were leaves the evaluation of that rule as it was.
OnlyOwnHistoryRead ==
    \A A \in Accounts, i \in Slots, v \in HistoryValues :
        (/\ \/ EnabledRuleAt(A, i, "COOLDOWN")
            \/ EnabledRuleAt(A, i, "SPEND_LIMIT")
         /\ UNCHANGED <<now, _policies[A], _rules[A][i], spendStates[A][i],
                        lastExecutionTime[A][i]>>) =>
            (evaluateRule(getRule(A, i), A, UNISWAP, v, EmptyData)'
                = evaluateRule(getRule(A, i), A, UNISWAP, v, EmptyData))

\* C27: stateful history is keyed by (account, rule position): the stateful
\* rule at position i of account A, when evaluated, reads exactly the state
\* that record writes for (A, i), and never the state of another position,
\* another rule or another account.
C27_HistoryKeyedByPosition ==
    [][RecordSeenByEvaluate /\ OnlyOwnHistoryRead]_vars

\* ───────────────────────────── C28 ─────────────────────────────

\* C28: recordExecution does not evaluate anything: it succeeds whether or
\* not the call would pass a check. For an account with a policy it records
\* on exactly the enabled SPEND_LIMIT and COOLDOWN rules, each at its own
\* position: the cooldown time of every such position becomes now, the spend
\* state of every such position with a spend changes, and nothing changes at
\* the position of a Tier-1 rule or a disabled rule, for another account, or
\* for an account with no policy; it fails only when a spend counter
\* overflows.
C28_RecordExecution ==
    [][ret'.op = "recordExecution" =>
        /\ UNCHANGED <<_policies, _rules>>
        /\ ret'.reverted =>
              (UNCHANGED store /\ \E i \in Slots : EnabledRuleAt(ret'.account, i, "SPEND_LIMIT"))
        /\ ~ret'.reverted =>
              \A A \in Accounts, i \in Slots :
                  LET rule == getRule(A, i)
                      p == decodeSpendLimitParams(rule.params).value
                      a == extractSpendAmount(p.token, ret'.target, ret'.value, ret'.data)
                  IN
                  /\ lastExecutionTime'[A][i] =
                        IF A = ret'.account /\ EnabledRuleAt(A, i, "COOLDOWN")
                        THEN now ELSE lastExecutionTime[A][i]
                  /\ (spendStates'[A][i] # spendStates[A][i]) <=>
                        (A = ret'.account /\ EnabledRuleAt(A, i, "SPEND_LIMIT") /\ a > 0)
       ]_vars

\* Executions were recorded for ALICE beyond the limit of her spend-limit
\* rule, and the last one also wrote the time of her cooldown rule at
\* position 1.
C28_Witness ==
    /\ ret.op = "recordExecution"
    /\ ~ret.reverted
    /\ getRule(ALICE, 0) = SpendEth
    /\ getRule(ALICE, 1) = Cooldown2
    /\ spendStates[ALICE][0].spent > ONE_ETHER
    /\ lastExecutionTime[ALICE][1] = now
    /\ lastExecutionTime[ALICE][0] = 0

\* ───────────────────────────── C29 ─────────────────────────────

\* C29: record is invoked only after the guarded action actually executed:
\* the stateful history of an account A changes only as the last step of an
\* execution for A that was checked and whose body ran, never through a
\* call that an unrelated address makes for a call that was not executed.
C29_RecordOnlyAfterExecution ==
    [][\A A \in Accounts :
          <<spendStates[A], lastExecutionTime[A]>>' # <<spendStates[A], lastExecutionTime[A]>>
          =>  /\ stack # <<>>
              /\ GuardTop.sender = A
              /\ GuardTop.calls = <<EngineCall("checkPolicy", A, GuardTop.target,
                                               GuardTop.value, GuardTop.data),
                                    BodyCall>>
              /\ executionCount = GuardTop.saved + 1
       ]_vars

\* ───────────────────────────── C30 ─────────────────────────────

\* The spend-limit rule at position i of the account of the last call, its
\* parameters, the spend of that call and the stored window.
SpendRuleOfCall(i) ==
    LET rule == getRule(ret.account, i)
        p == decodeSpendLimitParams(rule.params).value
    IN [p |-> p,
        a |-> extractSpendAmount(p.token, ret.target, ret.value, ret.data),
        stale |-> now >= spendStates[ret.account][i].windowStart + p.windowSeconds]

\* A check whose spend-limit rule at position i finds a stale stored window
\* passes exactly when the spend alone fits under the limit.
StaleWindowCountsAsZero ==
    \A i \in Slots :
        (/\ ret.op = "checkPolicy"
         /\ EnabledRuleAt(ret.account, i, "SPEND_LIMIT")
         /\ \A j \in Slots \ {i} :
                (j < getPolicy(ret.account).ruleCount /\ getRule(ret.account, j).enabled)
                => RulePasses(getRule(ret.account, j), ret.account,
                              ret.target, ret.value, ret.data)
         /\ SpendRuleOfCall(i).a > 0
         /\ SpendRuleOfCall(i).stale)
        => (~ret.reverted /\ ret.result = (SpendRuleOfCall(i).a <= SpendRuleOfCall(i).p.maxAmount))

\* The check of the last transaction, made once more in the state it left,
\* at the same time, gives the result it has just given.
RepeatedCheckAgrees ==
    ret.op = "checkPolicy" =>
        LET again == checkPolicy(ret.account, ret.target, ret.value, ret.data,
                                 ret.attestation)
        IN /\ again.reverted = ret.reverted
           /\ again.result = ret.result
           /\ again.reason = ret.reason

\* A check writes no spend state.
EvaluateKeepsWindow ==
    ret'.op = "checkPolicy" => UNCHANGED <<spendStates, lastExecutionTime>>

\* A recording with a spend commits the reset of a stale window (spent is the
\* recorded amount, the window starts now) and adds to a live window without
\* moving its start.
RecordCommitsWindow ==
    (ret'.op = "recordExecution" /\ ~ret'.reverted) =>
        \A i \in Slots :
            LET A == ret'.account
                p == decodeSpendLimitParams(getRule(A, i).params).value
                a == extractSpendAmount(p.token, ret'.target, ret'.value, ret'.data)
                state == spendStates[A][i]
            IN (EnabledRuleAt(A, i, "SPEND_LIMIT") /\ a > 0) =>
                  spendStates'[A][i] =
                     IF now >= state.windowStart + p.windowSeconds
                     THEN SpendState(a, now)
                     ELSE SpendState(state.spent + a, state.windowStart)

\* C30: SpendLimit evaluate on a stale window (now >= windowStart +
\* windowSeconds) treats the current spend as zero and leaves the stored
\* {spent, windowStart} unchanged; only record commits the reset, setting
\* spent to the recorded amount and windowStart to now, while record inside
\* a live window adds to spent and keeps windowStart; repeated evaluation at
\* the same time and state gives the same result.
C30_StaleWindow ==
    /\ [](StaleWindowCountsAsZero /\ RepeatedCheckAgrees)
    /\ [][EvaluateKeepsWindow /\ RecordCommitsWindow]_vars

\* A recording at the last timestamp has just committed the reset of a stale
\* window: the window starts now and holds the recorded amount alone.
C30_Witness ==
    /\ ret.op = "recordExecution"
    /\ ~ret.reverted
    /\ EnabledRuleAt(ALICE, 0, "SPEND_LIMIT")
    /\ now = MaxTime
    /\ spendStates[ALICE][0] = SpendState(SpendRuleOfCall(0).a, now)
    /\ SpendRuleOfCall(0).a > 0

\* ───────────────────────────── C31 ─────────────────────────────

\* C31: CooldownRule.record sets the last execution of (owner, rule
\* position) to the current time on every recorded execution, whatever the
\* sender, the value of the call and the time recorded before (none, one
\* whose cooldown has elapsed, or one whose cooldown is still running): every
\* recorded execution restarts the cooldown.
C31_RecordRestartsCooldown ==
    [][(ret'.op = "recordExecution") =>
          \A i \in Slots :
              EnabledRuleAt(ret'.account, i, "COOLDOWN") =>
                  /\ ~ret'.reverted
                  /\ lastExecutionTime'[ret'.account][i] = now
       ]_vars

\* An execution was recorded for ALICE's cooldown at position 1 at a time
\* after the first timestamp, by BOB, with a value.
C31_Witness ==
    /\ ret.op = "recordExecution"
    /\ ret.sender = BOB
    /\ ret.value = HALF_ETHER
    /\ EnabledRuleAt(ALICE, 1, "COOLDOWN")
    /\ now > 1
    /\ lastExecutionTime[ALICE][1] = now

\* ───────────────────────────── C32 ─────────────────────────────

\* C32: spend-limit correctness holds under interleaving: when executions of
\* one account overlap, so that two checks come before either record, the
\* spend recorded in one window still never exceeds maxAmount.
C32_SpendLimitUnderInterleaving ==
    \A i \in Slots :
        EnabledRuleAt(ALICE, i, "SPEND_LIMIT") =>
            spendStates[ALICE][i].spent
                <= decodeSpendLimitParams(getRule(ALICE, i).params).value.maxAmount

\* ───────────────────────────── C33 ─────────────────────────────

\* The last call was checkPolicy for an account whose policy requires an
\* attestation and whose rules pass the call.
AttestationPhaseReached ==
    /\ ret.op = "checkPolicy"
    /\ _policies[ret.account].exists
    /\ _policies[ret.account].requireAttestation
    /\ CheckRules(ret.account, 0, ret.target, ret.value, ret.data) = Pass

\* What the attestation phase gives for the last call under fail mode CLOSED.
UnderClosed ==
    CheckAttestation([_policies[ret.account] EXCEPT !.failMode = "CLOSED"],
                     ret.account, ret.target, ret.value, ret.data, ret.attestation)

\* C33: fail-open applies only to a missing attestation: under fail mode
\* OPEN with requireAttestation, a non-empty attestation that is mismatched,
\* expired, for another chain or wrongly signed makes checkPolicy return
\* false, with the result and reason it has under CLOSED; only the empty
\* attestation is let through.
C33_FailOpenOnlyWhenMissing ==
    (AttestationPhaseReached /\ _policies[ret.account].failMode = "OPEN") =>
        /\ (ret.attestation.length > 0 /\ InvalidityCauses(ret) # {}) =>
              /\ ~ret.reverted
              /\ ret.result = FALSE
              /\ ret.result = UnderClosed.result
              /\ ret.reason = UnderClosed.reason
        /\ ret.attestation.length = 0 => (ret.result /\ ~UnderClosed.result)

\* checkPolicy under OPEN has denied an attestation whose only defects are
\* the other chain and the other signer, for a call its approval matches.
C33_Witness ==
    /\ AttestationPhaseReached
    /\ _policies[ret.account].failMode = "OPEN"
    /\ ret.attestation.length > 0
    /\ InvalidityCauses(ret) = {"chain", "signature"}
    /\ ret.result = FALSE
    /\ ret.reason = "Invalid attestation signature or expired"

\* ───────────────────────────── C34 ─────────────────────────────

\* C34: in every reachable state and for every account, every rule slot at
\* an index at or above the account's ruleCount holds the default value, so
\* getRule never returns a rule of a replaced or removed policy.
C34_NoStaleRuleSlots ==
    \A account \in Accounts : \A i \in Slots :
        i >= getPolicy(account).ruleCount => getRule(account, i) = DefaultRule

\* A one-rule policy has just replaced a two-rule policy; the slot above the
\* new rule is empty.
C34_Witness ==
    /\ ret.op = "setPolicySet"
    /\ ~ret.reverted
    /\ ret.oldRuleCount = 2
    /\ Len(ret.rules) = 1
    /\ getPolicy(ALICE).ruleCount = 1
    /\ getRule(ALICE, 0) = MaxOneEther
    /\ getRule(ALICE, 1) = DefaultRule

\* ───────────────────────────── C35 ─────────────────────────────

\* C35: setPolicySet and removePolicySet leave all stateful rule history
\* unchanged: the spend-limit and cooldown state recorded under (account,
\* position) survives the replacement or removal of the policy, so a
\* stateful rule installed later at the same position finds the previous
\* rule's recorded history there.
C35_PolicyChangeKeepsHistory ==
    [][ret'.op \in {"setPolicySet", "removePolicySet"} =>
          /\ spendStates' = spendStates
          /\ lastExecutionTime' = lastExecutionTime]_vars

\* After a removal a policy has just been installed whose spend limit at
\* position 0 and cooldown at position 1 find state recorded under the
\* removed policy.
C35_Witness ==
    /\ ret.op = "setPolicySet"
    /\ ~ret.reverted
    /\ ~ret.hadPolicy
    /\ EnabledRuleAt(ALICE, 0, "SPEND_LIMIT")
    /\ EnabledRuleAt(ALICE, 1, "COOLDOWN")
    /\ spendStates[ALICE][0].spent > 0
    /\ lastExecutionTime[ALICE][1] > 0

\* ───────────────────────────── C36 ─────────────────────────────

\* The identical call that ReplayApproval approves passes ALICE's stored
\* policy and rule state, and the approval has not expired.
ReplayStillPasses ==
    /\ hasPolicy(ALICE)
    /\ CheckRules(ALICE, 0, UNISWAP, HALF_ETHER, EmptyData) = Pass
    /\ now <= ReplayApproval.expiry

\* The step presents ReplayAttestation for the identical call, to checkPolicy
\* directly or through a guarded execution.
ReplayPresented ==
    /\ stack = <<>>
    /\ ret'.op \in {"checkPolicy", "guardedExecute"}
    /\ ret'.attestation = ReplayAttestation
    /\ ret'.target = UNISWAP
    /\ ret'.value = HALF_ETHER
    /\ ret'.data = EmptyData

\* C36: the engine keeps no record of used attestations: an attestation is
\* accepted for the identical call every time it is presented, whatever was
\* accepted before, at every time up to and including its expiry, as long as
\* the policy and the rule state still pass; after its expiry the policy
\* denies it.
C36_AttestationReplayable ==
    [][ReplayPresented =>
          /\ ReplayStillPasses => (ret'.op = "checkPolicy" /\ ret'.result)
          /\ (hasPolicy(ALICE) /\ now > ReplayApproval.expiry) =>
                (ret'.reverted \/ ~ret'.result)]_vars

\* At its expiry time the attestation is accepted by a direct check after two
\* guarded executions were let through; in this specification those can only
\* have presented the same attestation.
C36_Witness ==
    /\ executionCount = 2
    /\ stack = <<>>
    /\ ret.op = "checkPolicy"
    /\ ret.sender = BOB
    /\ ret.attestation = ReplayAttestation
    /\ ret.result
    /\ now = ReplayApproval.expiry

\* ───────────────────────────── C37 ─────────────────────────────

\* The last call was preCheck, with msgData of at least a selector, by an
\* initialized account whose policy requires an attestation.
HookedExecution ==
    /\ ret.op = "preCheck"
    /\ ret.msgData.length >= 4
    /\ isInitialized(ret.sender)
    /\ hasPolicy(ret.sender)
    /\ getPolicy(ret.sender).requireAttestation

\* The on-chain rules of the account pass the execution that preCheck
\* decodes from its msgData.
HookRulesPass ==
    LET decoded == decodeExecution(ret.msgData) IN
    /\ ~decoded.reverted
    /\ CheckRules(ret.sender, 0, decoded.value.target, decoded.value.value,
                  decoded.value.data) = Pass

C38_LitAttestationVerifies ==
    [][(/\ ret.op = "go"
        /\ ret.approved
        /\ ret'.op = "checkPolicy"
        /\ hasPolicy(ret.params.caller)
        /\ getPolicy(ret.params.caller).policyCID = cidToBytes32(ret.params.policyCID)
        /\ getPolicy(ret.params.caller).pkpAddress = PKP
        /\ ret.params.chainId = CHAIN_ID
        /\ now <= ret.params.expiry) =>
            /\ ret.signature.digest = getPolicyApprovalDigest(buildPolicyApproval(ret.params))
            /\ ret'.result]_vars

\* ───────────────────────────── C39 ─────────────────────────────

\* The content of a value: objects as maps from property names, whatever the
\* insertion order.
RECURSIVE Content(_)
Content(value) ==
    IF value.t = "object"
    THEN [t |-> "object",
          map |-> [k \in {value.pairs[i].k : i \in 1..Len(value.pairs)} |->
                      Content(Get(value, k))]]
    ELSE IF value.t = "array"
    THEN [t |-> "array", items |-> [i \in 1..Len(value.items) |-> Content(value.items[i])]]
    ELSE value

\* C39: policy serialization round-trips and is canonical: for every
\* schema-valid policy p, deserializePolicy(serializePolicy(p)) succeeds and
\* equals p, its on-chain and off-chain rule lists included; serializePolicy
\* gives the same string for two policies with equal content whatever their
\* key insertion order; IPFSClient.verify of the pinned string against a
\* policy of equal content is true.
C39_SerializationRoundTrip ==
    /\ ret.op = "deserializePolicy" =>
          /\ ~ret.threw
          /\ Content(ret.value) = Content(ret.policy)
    /\ ret.op = "serializePolicy" =>
          \A other \in JsonPolicies :
              Content(other) = Content(ret.policy) => serializePolicy(other) = ret.json
    /\ (ret.op = "verify" /\ Content(ret.expected) = Content(ret.policy)) => ret.result

====
